---- MODULE Spec2Model ----
(***************************************************************************)
(* A model of the data conversion pipeline of mini_al (src/mini_al.h):     *)
(* the sample rate converter (linear and sinc), the channel router, the    *)
(* format converters and the DSP supervisor that wires them into a pull    *)
(* graph.                                                                  *)
(*                                                                         *)
(* Conventions                                                             *)
(*  - A deinterleaved buffer is a sequence of frames.  The SRC and the     *)
(*    format converters treat every channel with the same indices, so a    *)
(*    frame stands for the samples of all its channels at one instant.     *)
(*    The router, whose pointer arithmetic is per channel, also keeps one  *)
(*    layout per output channel.                                           *)
(*  - The client stream is the sequence base, base+1, base+2, ...          *)
(*  - Times (timeIn, factor) are floats in the code.  The model keeps them *)
(*    as integers in units of 1/TimeDen and only uses rate pairs whose     *)
(*    ratio is a multiple of 1/TimeDen, for which the float arithmetic of  *)
(*    the code gives the results of the exact one.                         *)
(*  - C arrays are 0-based, TLA+ sequences 1-based: input[i] of the code   *)
(*    is input[i+1] here.                                                  *)
(***************************************************************************)
EXTENDS Integers, Sequences, FiniteSets, TLC

\* dsp, router, src, converter: the objects of the library (converter is a
\* format converter used on its own); client: the state of the raw data
\* source behind the read callback; threads: the position of each thread
\* that is inside a call, where calls overlap; g_malLCG: the state of the
\* random number generator, a global of the library; device: the device
\* object, with the events and the lock it holds; last: the record of the
\* last call made to the library; step: the number of calls made so far
VARIABLES dsp, router, src, converter, client, threads, g_malLCG, device, last, step

vars == <<dsp, router, src, converter, client, threads, g_malLCG, device, last, step>>

(***************************************************************************)
(* Program constants.                                                      *)
(***************************************************************************)
MAL_MAX_CHANNELS == 32
MAL_MAX_PCM_SAMPLE_SIZE_IN_BYTES == 8
MAL_SIMD_ALIGNMENT == 64
MAL_SRC_SINC_MIN_WINDOW_WIDTH == 2
MAL_SRC_SINC_MAX_WINDOW_WIDTH == 32
MAL_SRC_SINC_DEFAULT_WINDOW_WIDTH == 32
MAL_SRC_INPUT_BUFFER_SIZE_IN_SAMPLES == 256
LinearChunkCap == 16384

\* mal_countof(pSRC->sinc.input[0])
SincCacheLen == MAL_SRC_SINC_MAX_WINDOW_WIDTH * 2 + MAL_SRC_INPUT_BUFFER_SIZE_IN_SAMPLES

(***************************************************************************)
(* Units and bounds of the model.                                          *)
(***************************************************************************)
\* times are kept in units of 1/TimeDen
TimeDen == 4
\* the number of calls made to an object in one behaviour
MaxSteps == 4

Min(a, b) == IF a < b THEN a ELSE b

\* A mal_uint32 is kept as the number it holds while that is below 2^31; a
\* subtraction that wraps around leaves a negative number k standing for
\* 2^32 + k, and the comparisons of such values are unsigned.
\* an array of the program held as a plain sequence of its elements
Array(f) == f \o <<>>

U32Sub(a, b) == a - b
U32Gt(a, b) == IF (a < 0) = (b < 0) THEN a > b ELSE a < 0

(***************************************************************************)
(* The client: the raw read callback.  It holds avail frames and returns   *)
(* min(frameCount, avail) of them; frame number p of the stream carries    *)
(* the value base + p.                                                     *)
(***************************************************************************)
ClientFrames(c, k) == [i \in 1..k |-> c.base + c.pos + (i - 1)]

\* One call of the client callback from the stage `caller`.
ClientOnRead(cx, caller, frameCount) ==
    LET k == Min(frameCount, cx.client.avail)
    IN [cx |-> [cx EXCEPT !.client.pos = @ + k,
                          !.client.avail = @ - k,
                          !.calls = @ \cup {<<caller, "client">>},
                          !.short = @ \/ (k < frameCount),
                          !.zero = @ \/ (k = 0),
                          !.asked = Append(@, frameCount),
                          !.pulled = @ \o ClientFrames(cx.client, k)],
        fr |-> ClientFrames(cx.client, k)]

(***************************************************************************)
(* The call context threaded through one top-level read: the objects the   *)
(* call works on (dsp, router, src, client) and a log of the call.         *)
(*   calls   the set of <<calling stage, called stage>> pairs              *)
(*   ops     the set of stages that transformed the data                   *)
(*   short   some client callback returned fewer frames than asked         *)
(*   zero    some client callback returned no frame                        *)
(*   asked   the frame counts the client callback was asked for, in order  *)
(*   pulled  the frames the client supplied during the call, in order      *)
(*   crashed the call ran into an out-of-bounds memory copy and never      *)
(*           returns                                                       *)
(*   asserted an mal_assert of the call would fail in a debug build        *)
(*   zeroAt  the number of frames the SRC had produced when its source     *)
(*           first returned no frame (-1: it never did)                    *)
(*   hung    the read loop of the SRC repeats an iteration that changes    *)
(*           nothing, and the call never returns                           *)
(***************************************************************************)
NewContext(d, r, s, c) ==
    [dsp |-> d, router |-> r, src |-> s, client |-> c,
     calls |-> {}, ops |-> {}, short |-> FALSE, zero |-> FALSE,
     asked |-> <<>>, pulled |-> <<>>, crashed |-> FALSE, asserted |-> FALSE, zeroAt |-> -1,
     hung |-> FALSE]

Called(cx, caller, callee) == [cx EXCEPT !.calls = @ \cup {<<caller, callee>>}]

RECURSIVE mal_src_read_deinterleaved(_, _)
RECURSIVE mal_channel_router_read_deinterleaved(_, _)
RECURSIVE mal_format_converter_read_deinterleaved(_, _, _, _)

(***************************************************************************)
(* The read callbacks a stage can be configured with.  Invoke(cb, caller,  *)
(* cx, n) is the call  config.onRead(..., n, ...)  made by stage `caller`. *)
(***************************************************************************)
\* the application's own callback, given directly to a stand-alone stage
client_on_read(cx, caller, frameCount) == ClientOnRead(cx, caller, frameCount)

mal_dsp__pre_format_converter_on_read(cx, frameCount) ==
    ClientOnRead(cx, "pre", frameCount)

mal_dsp__post_format_converter_on_read(cx, frameCount) ==
    ClientOnRead(cx, "post", frameCount)

mal_dsp__post_format_converter_on_read_deinterleaved(cx, frameCount) ==
    IF ~cx.dsp.isChannelRoutingAtStart
    THEN mal_channel_router_read_deinterleaved(Called(cx, "post", "router"), frameCount)
    ELSE IF cx.dsp.isSRCRequired
         THEN mal_src_read_deinterleaved(Called(cx, "post", "src"), frameCount)
         ELSE mal_channel_router_read_deinterleaved(Called(cx, "post", "router"), frameCount)

\* an SRC that reads from the client itself
mal_dsp__src_on_read_from_client(cx, frameCount) ==
    ClientOnRead(cx, "src", frameCount)

mal_dsp__src_on_read_deinterleaved(cx, frameCount) ==
    IF cx.dsp.isChannelRoutingAtStart
    THEN mal_channel_router_read_deinterleaved(Called(cx, "src", "router"), frameCount)
    ELSE mal_format_converter_read_deinterleaved(Called(cx, "src", "pre"), "pre",
                                                 cx.dsp.formatConverterIn, frameCount)

mal_dsp__channel_router_on_read_deinterleaved(cx, frameCount) ==
    IF cx.dsp.isChannelRoutingAtStart
    THEN mal_format_converter_read_deinterleaved(Called(cx, "router", "pre"), "pre",
                                                 cx.dsp.formatConverterIn, frameCount)
    ELSE IF cx.dsp.isSRCRequired
         THEN mal_src_read_deinterleaved(Called(cx, "router", "src"), frameCount)
         ELSE mal_format_converter_read_deinterleaved(Called(cx, "router", "pre"), "pre",
                                                      cx.dsp.formatConverterIn, frameCount)

Invoke(cb, caller, cx, frameCount) ==
    CASE cb = "client_on_read" -> client_on_read(cx, caller, frameCount)
      [] cb = "mal_dsp__pre_format_converter_on_read" ->
             mal_dsp__pre_format_converter_on_read(cx, frameCount)
      [] cb = "mal_dsp__post_format_converter_on_read" ->
             mal_dsp__post_format_converter_on_read(cx, frameCount)
      [] cb = "mal_dsp__post_format_converter_on_read_deinterleaved" ->
             mal_dsp__post_format_converter_on_read_deinterleaved(cx, frameCount)
      [] cb = "mal_dsp__src_on_read_deinterleaved" ->
             mal_dsp__src_on_read_deinterleaved(cx, frameCount)
      [] cb = "mal_dsp__channel_router_on_read_deinterleaved" ->
             mal_dsp__channel_router_on_read_deinterleaved(cx, frameCount)

(***************************************************************************)
(* Sample rate conversion: the linear algorithm.                           *)
(***************************************************************************)
\* factor = (float)sampleRateIn / sampleRateOut, in units of 1/TimeDen
SrcFactorInverted(s) ==
    LET f == (s.sampleRateOut * TimeDen) \div s.sampleRateIn IN IF f = 0 THEN 1 ELSE f

SrcFactor(s) == (s.sampleRateIn * TimeDen) \div s.sampleRateOut

\* mal_mix_f32_fast(x, y, a) = x + (y - x)*a, with a in units of 1/TimeDen;
\* the result is in units of 1/TimeDen
mal_mix_f32_fast_swapped(x, y, a) == y * TimeDen + (x - y) * a

mal_mix_f32_fast(x, y, a) == x * TimeDen + (y - x) * a

\* writes the frames fr into the array arr from (0-based) offset off
WriteAt(arr, off, fr) ==
    Array([i \in 1..Len(arr) |->
              IF i > off /\ i <= off + Len(fr) THEN fr[i - off] ELSE arr[i]])

\* pSRC->linear.leftoverFrames = framesReadFromClient - iNextFrame, for the
\* time tNext the iteration ends at
LinearKeepingAllFrames(framesReadFromClient, tNext) == framesReadFromClient

LinearLeftoverFrames(framesReadFromClient, tNext) ==
    U32Sub(framesReadFromClient, tNext \div TimeDen)

\* The part of one iteration of the while loop of
\* mal_src_read_deinterleaved__linear that follows the read from the client:
\* rd is what that read returned (the context after it and the frames).
LinearInterpolate(s, factor, framesToRead, framesToReadFromClient, rd) ==
    LET tBeg == s.timeIn
        input1 == WriteAt(s.input, s.leftoverFrames, rd.fr)
        framesReadFromClient == Len(rd.fr) + s.leftoverFrames
        tAvailable == framesReadFromClient * TimeDen - tBeg - TimeDen
        maxOut0 == tAvailable \div factor
        maxOut1 == IF maxOut0 = 0 THEN 1 ELSE maxOut0
        maxOutputFramesToRead == IF maxOut1 > framesToRead THEN framesToRead ELSE maxOut1
        out == [k \in 1..maxOutputFramesToRead |->
                  LET t == tBeg + (k - 1) * factor
                      iPrevSample == t \div TimeDen
                  IN mal_mix_f32_fast(input1[iPrevSample + 1], input1[iPrevSample + 2],
                                      t % TimeDen)]
        tNext == tBeg + maxOutputFramesToRead * factor
        iNextFrame == tNext \div TimeDen
        leftover == LinearLeftoverFrames(framesReadFromClient, tNext)
        \* the residual copy runs for leftoverFrames frames; after an
        \* underflow it runs off the end of the cache
        overrun == leftover < 0 \/ iNextFrame + leftover > MAL_SRC_INPUT_BUFFER_SIZE_IN_SAMPLES
        input2 == Array([i \in 1..Len(input1) |->
                           IF i <= leftover THEN input1[iNextFrame + i] ELSE input1[i]])
        srcZero == framesToReadFromClient > s.leftoverFrames /\ Len(rd.fr) = 0
    IN IF rd.cx.crashed
       THEN [cx |-> rd.cx, out |-> <<>>, brk |-> TRUE, srcZero |-> srcZero]
       ELSE IF framesReadFromClient < 2
       THEN [cx |-> [rd.cx EXCEPT !.src.input = input1], out |-> <<>>, brk |-> TRUE,
             srcZero |-> srcZero]
       ELSE IF overrun
       THEN [cx |-> [rd.cx EXCEPT !.crashed = TRUE], out |-> out, brk |-> TRUE,
             srcZero |-> srcZero]
       ELSE [cx |-> [rd.cx EXCEPT !.src.input = input2,
                                  !.src.leftoverFrames = leftover,
                                  !.src.timeIn = tNext % TimeDen,
                                  !.ops = @ \cup {"src"}],
             out |-> out,
             brk |-> framesReadFromClient < framesToReadFromClient,
             srcZero |-> srcZero]

\* the number of frames an iteration wants in the cache
LinearFramesToReadFromClient(s, factor, framesToRead) ==
    LET tEnd == s.timeIn + framesToRead * factor
        want == (tEnd \div TimeDen) + 1 + 1
    IN IF want >= MAL_SRC_INPUT_BUFFER_SIZE_IN_SAMPLES
       THEN MAL_SRC_INPUT_BUFFER_SIZE_IN_SAMPLES ELSE want

\* the read from the client of one iteration: the frames the cache lacks
LinearReadFromClient(cx, framesToReadFromClient) ==
    IF framesToReadFromClient > cx.src.leftoverFrames
    THEN Invoke(cx.src.onReadDeinterleaved, "src", cx,
                framesToReadFromClient - cx.src.leftoverFrames)
    ELSE [cx |-> cx, fr |-> <<>>]

\* One iteration of the while loop of mal_src_read_deinterleaved__linear
\* that is to produce framesToRead frames at most.
LinearIteration(cx, factor, framesToRead, framesToReadFromClient) ==
    LinearInterpolate(cx.src, factor, framesToRead, framesToReadFromClient,
                      LinearReadFromClient(cx, framesToReadFromClient))

RECURSIVE LinearLoop(_, _, _, _)
\* the end of an iteration `it`: the loop goes on unless the iteration broke
\* out of it.  The source is asked before the iteration produces its frames.
LinearBreakingEarly(zeroAt, factor, frameCount, out, it) ==
    [cx |-> it.cx, fr |-> out \o it.out]

LinearContinue(zeroAt, factor, frameCount, out, it) ==
    LET cx1 == IF it.srcZero /\ zeroAt < 0
               THEN [it.cx EXCEPT !.zeroAt = Len(out)] ELSE it.cx
    IN IF it.brk
       THEN [cx |-> cx1, fr |-> out \o it.out]
       ELSE LinearLoop(cx1, factor, frameCount, out \o it.out)

LinearLoop(cx, factor, frameCount, out) ==
    IF Len(out) >= frameCount
    THEN [cx |-> cx, fr |-> out]
    ELSE LinearContinue(cx.zeroAt, factor, frameCount, out,
             LinearIteration(cx, factor, Min(frameCount - Len(out), LinearChunkCap),
                 LinearFramesToReadFromClient(cx.src, factor,
                     Min(frameCount - Len(out), LinearChunkCap))))

mal_src_read_deinterleaved__linear(cx, frameCount) ==
    LinearLoop(cx, SrcFactor(cx.src), frameCount, <<>>)

(***************************************************************************)
(* Sample rate conversion: the sinc algorithm.                             *)
(***************************************************************************)
\* (mal_uint64)(num * inverseFactor) for a float num (in units of 1/TimeDen):
\* the conversion truncates towards zero; a value of -1 or less has no
\* unsigned result (undefined), which the model reports as -1.
FloatToUnsigned(num, factor) ==
    IF num >= 0 THEN num \div factor
    ELSE IF (0 - num) < factor THEN 0 ELSE -1

\* The value of one output sample: the code sums, over the taps i of the
\* window, input[iTimeIn + i] * table(|t - (i - windowWidth)|).  The model
\* keeps the operands of that sum: the phase t and the samples under the
\* window (the first tap is always zero and is left out).
SincSample(input, iTimeIn, t, windowWidth) ==
    [t |-> t,
     w |-> [i \in 1..(2 * windowWidth - 1) |->
              IF iTimeIn + i < Len(input) THEN input[iTimeIn + i + 1] ELSE -1]]

\* an iteration that takes a window width more than the input it has
SincConsumingPastInput(s, available) == available + s.windowWidth

\* the tail end of the input the iteration keeps back: a window width of
\* it when the SRC is never to consume the end of the input
SincNeverConsumeEndOfInput(s, available) ==
    IF s.neverConsumeEndOfInput
    THEN (IF ~U32Gt(s.windowWidth, available) THEN available - s.windowWidth ELSE 0)
    ELSE available

\* The first part of one iteration of the while loop of
\* mal_src_read_deinterleaved__sinc: the output frames the cache allows are
\* computed, the window advances, and the cache is moved back to the front
\* when no whole output frame is left in it.  bad: an index or a count of
\* the iteration left its range.
SincProduce(s, factor, framesRemaining) ==
    LET windowWidth == s.windowWidth
        avail0 == U32Sub(SincCacheLen - (windowWidth * 2), s.windowPosInSamples)
        maxInputSamplesAvailableInCache ==
            SincNeverConsumeEndOfInput(s,
                IF U32Gt(avail0, s.inputFrameCount) THEN s.inputFrameCount ELSE avail0)
        timeInBeg == s.timeIn
        timeInEnd == (s.windowPosInSamples + maxInputSamplesAvailableInCache) * TimeDen
        maxOutputFramesToRead == FloatToUnsigned(timeInEnd - timeInBeg, factor)
        outputFramesToRead ==
            IF maxOutputFramesToRead < 0 THEN framesRemaining
            ELSE Min(framesRemaining, maxOutputFramesToRead)
        windowOverrun ==
            outputFramesToRead > 0 /\
            ((timeInBeg + (outputFramesToRead - 1) * factor) \div TimeDen)
                + 2 * windowWidth - 1 >= SincCacheLen
        timeIn1 == timeInBeg + outputFramesToRead * factor
        windowPos1 == timeIn1 \div TimeDen
        inputFrameCount1 == U32Sub(s.inputFrameCount, windowPos1 - s.windowPosInSamples)
        availableOutputFrames == FloatToUnsigned(timeInEnd - timeIn1, factor)
        moved == availableOutputFrames = 0
        \* memmove(input, input + countof - samplesToMove, samplesToMove)
        samplesToMove == SincCacheLen - windowPos1
        dstOffset == windowWidth + inputFrameCount1
        framesToReadFromClient == U32Sub(SincCacheLen, dstOffset)
        wrapped == avail0 < 0 \/ maxInputSamplesAvailableInCache < 0
                   \/ inputFrameCount1 < 0 \/ framesToReadFromClient < 0
    IN IF maxOutputFramesToRead < 0 \/ availableOutputFrames < 0 \/ windowOverrun
          \/ windowPos1 > SincCacheLen \/ wrapped
       THEN [bad |-> TRUE]
       ELSE [bad |-> FALSE,
             out |-> [k \in 1..outputFramesToRead |->
                        SincSample(s.input, (timeInBeg + (k - 1) * factor) \div TimeDen,
                                   (timeInBeg + (k - 1) * factor) % TimeDen, windowWidth)],
             input |-> IF moved
                       THEN Array([i \in 1..SincCacheLen |->
                               IF i <= samplesToMove THEN s.input[windowPos1 + i]
                               ELSE s.input[i]])
                       ELSE s.input,
             timeIn |-> IF moved THEN timeIn1 % TimeDen ELSE timeIn1,
             windowPosInSamples |-> IF moved THEN 0 ELSE windowPos1,
             inputFrameCount |-> inputFrameCount1,
             availableOutputFrames |-> availableOutputFrames,
             dstOffset |-> dstOffset,
             framesToReadFromClient |-> framesToReadFromClient]

\* the context after the first part p of an iteration
SincDroppingPhase(cx, p) ==
    [cx EXCEPT !.src.input = p.input,
               !.src.timeIn = (p.timeIn \div TimeDen) * TimeDen,
               !.src.windowPosInSamples = p.windowPosInSamples,
               !.src.inputFrameCount = p.inputFrameCount,
               !.ops = IF Len(p.out) > 0 THEN @ \cup {"src"} ELSE @]

SincAdvance(cx, p) ==
    [cx EXCEPT !.src.input = p.input,
               !.src.timeIn = p.timeIn,
               !.src.windowPosInSamples = p.windowPosInSamples,
               !.src.inputFrameCount = p.inputFrameCount,
               !.ops = IF Len(p.out) > 0 THEN @ \cup {"src"} ELSE @]

\* the read from the client of the reloading part
SincReadFromClient(cx2, framesToReadFromClient) ==
    IF framesToReadFromClient > 0
    THEN Invoke(cx2.src.onReadDeinterleaved, "src", cx2, framesToReadFromClient)
    ELSE [cx |-> cx2, fr |-> <<>>]

\* The second part of an iteration: the loop ends here when the end of the
\* input was loaded by the iteration before; otherwise the cache is
\* reloaded from the client when it has drained.  s: the SRC the iteration
\* started from, p: its first part, cx2: the context after it, rd: what
\* the read from the client returns.
SincReload(s, factor, p, cx2, rd) ==
    LET windowWidth == s.windowWidth
        framesReadFromClient == Len(rd.fr)
        inputFrameCount3 == p.inputFrameCount + framesReadFromClient
        input3 == WriteAt(p.input, p.dstOffset, rd.fr)
        zeroFrom == windowWidth + inputFrameCount3
        input4 == Array([i \in 1..SincCacheLen |-> IF i > zeroFrom THEN 0 ELSE input3[i]])
        noMoreOutput ==
            IF s.neverConsumeEndOfInput
            THEN p.inputFrameCount * TimeDen <= windowWidth * factor
            ELSE p.inputFrameCount * TimeDen < factor
        cx3 == [rd.cx EXCEPT !.src.isEndOfInputLoaded =
                                 (framesReadFromClient # p.framesToReadFromClient),
                             !.src.inputFrameCount = inputFrameCount3,
                             !.src.input = input3]
        srcZero == p.framesToReadFromClient > 0 /\ framesReadFromClient = 0
    IN IF s.isEndOfInputLoaded
       THEN [cx |-> [cx2 EXCEPT !.src.isEndOfInputLoaded = FALSE], out |-> p.out,
             brk |-> TRUE, srcZero |-> FALSE]
       ELSE IF ~(p.inputFrameCount <= windowWidth \/ p.availableOutputFrames = 0)
       THEN [cx |-> cx2, out |-> p.out, brk |-> FALSE, srcZero |-> FALSE]
       ELSE IF p.dstOffset > SincCacheLen \/ rd.cx.crashed
       THEN [cx |-> [rd.cx EXCEPT !.crashed = TRUE], out |-> p.out, brk |-> TRUE,
             srcZero |-> FALSE]
       ELSE IF framesReadFromClient = 0 /\ noMoreOutput
       THEN [cx |-> cx3, out |-> p.out, brk |-> TRUE, srcZero |-> srcZero]
       ELSE [cx |-> [cx3 EXCEPT !.src.input = input4], out |-> p.out, brk |-> FALSE,
             srcZero |-> srcZero]

\* One iteration of the while loop of mal_src_read_deinterleaved__sinc,
\* from its first part p; cx2 is the context after that part.
SincIteration(cx, factor, p, cx2) ==
    IF p.bad
    THEN [cx |-> [cx EXCEPT !.crashed = TRUE], out |-> <<>>, brk |-> TRUE, srcZero |-> FALSE]
    ELSE SincReload(cx.src, factor, p, cx2,
                    SincReadFromClient(cx2, p.framesToReadFromClient))

RECURSIVE SincLoop(_, _, _, _)
\* the end of an iteration `it` that started in the context cx.  The source
\* is asked after the iteration has produced its frames.  hung: the
\* iteration wrote no frame, did not break and left the SRC and the client
\* as they were, so that every later iteration repeats it and the call
\* never returns.
SincContinue(cx, factor, frameCount, out, it) ==
    LET cx1 == IF it.srcZero /\ cx.zeroAt < 0
               THEN [it.cx EXCEPT !.zeroAt = Len(out) + Len(it.out)] ELSE it.cx
    IN IF it.brk
       THEN [cx |-> cx1, fr |-> out \o it.out]
       ELSE IF Len(it.out) = 0 /\ it.cx.src = cx.src /\ it.cx.client = cx.client
       THEN [cx |-> [cx1 EXCEPT !.hung = TRUE], fr |-> out]
       ELSE SincLoop(cx1, factor, frameCount, out \o it.out)

SincBody(cx, factor, frameCount, out, p) ==
    SincContinue(cx, factor, frameCount, out,
                 SincIteration(cx, factor, p, IF p.bad THEN cx ELSE SincAdvance(cx, p)))

SincLoop(cx, factor, frameCount, out) ==
    IF Len(out) >= frameCount
    THEN [cx |-> cx, fr |-> out]
    ELSE SincBody(cx, factor, frameCount, out,
                  SincProduce(cx.src, factor, frameCount - Len(out)))

mal_src_read_deinterleaved__sinc(cx, frameCount) ==
    SincLoop(cx, SrcFactor(cx.src), frameCount, <<>>)

\* frameCount <= 0xFFFFFFFF: a single call of the callback
mal_src_read_deinterleaved__passthrough(cx, frameCount) ==
    Invoke(cx.src.onReadDeinterleaved, "src", cx, frameCount)

mal_src_read_deinterleaved(cx, frameCount) ==
    IF frameCount = 0 THEN [cx |-> cx, fr |-> <<>>]
    ELSE CASE cx.src.algorithm = "none" -> mal_src_read_deinterleaved__passthrough(cx, frameCount)
           [] cx.src.algorithm = "linear" -> mal_src_read_deinterleaved__linear(cx, frameCount)
           [] cx.src.algorithm = "sinc" -> mal_src_read_deinterleaved__sinc(cx, frameCount)

ClampWindowWidth(w) ==
    LET w0 == IF w = 0 THEN MAL_SRC_SINC_DEFAULT_WINDOW_WIDTH ELSE w
        w1 == IF w0 < MAL_SRC_SINC_MIN_WINDOW_WIDTH THEN MAL_SRC_SINC_MIN_WINDOW_WIDTH ELSE w0
    IN IF w1 > MAL_SRC_SINC_MAX_WINDOW_WIDTH THEN MAL_SRC_SINC_MAX_WINDOW_WIDTH ELSE w1

\* the object after mal_zero_object: sinc is algorithm 0
ZeroSrc ==
    [result |-> "MAL_INVALID_ARGS", sampleRateIn |-> 0, sampleRateOut |-> 0, channels |-> 0,
     algorithm |-> "sinc", neverConsumeEndOfInput |-> FALSE, onReadDeinterleaved |-> "NULL",
     windowWidth |-> 0, input |-> <<>>, timeIn |-> 0, leftoverFrames |-> 0,
     inputFrameCount |-> 0, windowPosInSamples |-> 0, isEndOfInputLoaded |-> FALSE]

\* the window function of the config is one of the two known ones
mal_src_init(rateIn, rateOut, channels, algorithm, neverConsume, windowWidth, onRead) ==
    IF onRead = "NULL" \/ channels = 0 \/ channels > MAL_MAX_CHANNELS
    THEN ZeroSrc
    ELSE [result |-> "MAL_SUCCESS",
          sampleRateIn |-> rateIn, sampleRateOut |-> rateOut, channels |-> channels,
          algorithm |-> algorithm, neverConsumeEndOfInput |-> neverConsume,
          onReadDeinterleaved |-> onRead,
          windowWidth |-> IF algorithm = "sinc" THEN ClampWindowWidth(windowWidth)
                          ELSE windowWidth,
          input |-> [i \in 1..(IF algorithm = "sinc" THEN SincCacheLen
                               ELSE MAL_SRC_INPUT_BUFFER_SIZE_IN_SAMPLES) |-> 0],
          timeIn |-> 0, leftoverFrames |-> 0,
          inputFrameCount |-> 0, windowPosInSamples |-> 0,
          isEndOfInputLoaded |-> FALSE]

(***************************************************************************)
(* Format conversion.                                                      *)
(***************************************************************************)
mal_get_bytes_per_sample(format) ==
    CASE format = "u8" -> 1
      [] format = "s16" -> 2
      [] format = "s24" -> 3
      [] format = "s32" -> 4
      [] format = "f32" -> 4
      [] OTHER -> 0

\* sizeof(temp): MAL_MAX_CHANNELS * MAL_MAX_PCM_SAMPLE_SIZE_IN_BYTES * 128
ConverterTempSize == MAL_MAX_CHANNELS * MAL_MAX_PCM_SAMPLE_SIZE_IN_BYTES * 128

\* the split size mal_split_buffer computes for an aligned buffer:
\* (bufferSize / splitCount) & ~(alignment - 1), and 0 when there is
\* nothing to split into
mal_split_buffer(bufferSize, splitCount, alignment) ==
    IF splitCount = 0 THEN 0
    ELSE ((bufferSize \div splitCount) \div alignment) * alignment

\* The read loop shared by the branches of the format converter: pull at
\* most maxFramesToReadAtATime frames per iteration, stop on an empty or a
\* short read.  touch: the branch converts or (de)interleaves the samples.
RECURSIVE ConverterLoop(_, _, _, _, _, _, _)
\* the end of an iteration that asked for framesToRead (framesToReadRightNow)
\* frames, of maxFrames (maxFramesToReadAtATime) at most, and got rd
ConverterIgnoringCount(stage, cb, frameCount, maxFrames, touch, out, framesToRead, rd) ==
    [cx |-> rd.cx,
     fr |-> out \o [n \in 1..framesToRead |->
                       IF n <= Len(rd.fr) THEN rd.fr[n] ELSE 0]]

ConverterContinue(stage, cb, frameCount, maxFrames, touch, out, framesToRead, rd) ==
    LET framesJustRead == Len(rd.fr)
        cx1 == IF touch THEN [rd.cx EXCEPT !.ops = @ \cup {stage}] ELSE rd.cx
    IN IF framesJustRead = 0
       THEN [cx |-> rd.cx, fr |-> out]
       ELSE IF framesJustRead < framesToRead
       THEN [cx |-> cx1, fr |-> out \o rd.fr]
       ELSE ConverterLoop(cx1, stage, cb, frameCount, maxFrames, touch, out \o rd.fr)

ConverterLoop(cx, stage, cb, frameCount, maxFramesToReadAtATime, touch, out) ==
    IF Len(out) >= frameCount
    THEN [cx |-> cx, fr |-> out]
    ELSE ConverterContinue(stage, cb, frameCount, maxFramesToReadAtATime, touch, out,
             Min(frameCount - Len(out), maxFramesToReadAtATime),
             Invoke(cb, stage, cx, Min(frameCount - Len(out), maxFramesToReadAtATime)))

\* the frames that fit the temporary buffer of a branch that converts
\* interleaved input
ConverterInterleavedChunk(conv) ==
    (ConverterTempSize \div mal_get_bytes_per_sample(conv.formatIn)) \div conv.channels

\* the frames that fit one split of the temporary buffer of a branch that
\* converts deinterleaved input
ConverterDeinterleavedChunk(conv) ==
    mal_split_buffer(ConverterTempSize, conv.channels, MAL_SIMD_ALIGNMENT)
        \div mal_get_bytes_per_sample(conv.formatIn)

\* mal_format_converter_read: interleaved output.  The branches: interleaved
\* input of the same format (passed through, in chunks of 0xFFFFFFFF frames
\* at most: of frameCount frames), interleaved input of another format,
\* deinterleaved input.
mal_format_converter_read(cx, stage, conv, frameCount) ==
    ConverterLoop(cx, stage,
                  IF conv.onRead # "NULL" THEN conv.onRead ELSE conv.onReadDeinterleaved,
                  frameCount,
                  IF conv.onRead # "NULL"
                  THEN (IF conv.formatIn = conv.formatOut THEN frameCount
                        ELSE ConverterInterleavedChunk(conv))
                  ELSE ConverterDeinterleavedChunk(conv),
                  ~(conv.onRead # "NULL" /\ conv.formatIn = conv.formatOut),
                  <<>>)

\* mal_format_converter_read_deinterleaved: deinterleaved output.  The
\* branches: interleaved input, deinterleaved input of the same format
\* (passed through), deinterleaved input of another format.
mal_format_converter_read_deinterleaved(cx, stage, conv, frameCount) ==
    ConverterLoop(cx, stage,
                  IF conv.onRead # "NULL" THEN conv.onRead ELSE conv.onReadDeinterleaved,
                  frameCount,
                  IF conv.onRead # "NULL" THEN ConverterInterleavedChunk(conv)
                  ELSE (IF conv.formatIn = conv.formatOut THEN frameCount
                        ELSE ConverterDeinterleavedChunk(conv)),
                  ~(conv.onRead = "NULL" /\ conv.formatIn = conv.formatOut),
                  <<>>)

\* the object after mal_zero_object: mal_format_unknown is format 0
ZeroConverter ==
    [result |-> "MAL_INVALID_ARGS", formatIn |-> "unknown", formatOut |-> "unknown",
     channels |-> 0, onRead |-> "NULL", onReadDeinterleaved |-> "NULL"]

\* mal_format_converter_init: the config is copied; nothing is validated
mal_format_converter_init(formatIn, formatOut, channels, onRead, onReadDeinterleaved) ==
    [result |-> "MAL_SUCCESS",
     formatIn |-> formatIn, formatOut |-> formatOut, channels |-> channels,
     onRead |-> onRead, onReadDeinterleaved |-> onReadDeinterleaved]

(***************************************************************************)
(* Channel maps.  A map is the sequence of the first `channels` positions  *)
(* of the C array; the functions below read no entry beyond them.          *)
(***************************************************************************)
MAL_CHANNEL_NONE == 0
MAL_CHANNEL_MONO == 1
MAL_CHANNEL_FRONT_LEFT == 2
MAL_CHANNEL_FRONT_RIGHT == 3
MAL_CHANNEL_FRONT_CENTER == 4
MAL_CHANNEL_LFE == 5
MAL_CHANNEL_BACK_LEFT == 6
MAL_CHANNEL_BACK_RIGHT == 7
MAL_CHANNEL_SIDE_LEFT == 11
MAL_CHANNEL_SIDE_RIGHT == 12
MAL_LCG_A == 1103515245
MAL_LCG_C == 12345

mal_channel_map_valid(channels, channelMap) ==
    IF channels = 0 THEN FALSE
    ELSE IF channels > 1
    THEN \A iChannel \in 1..channels : channelMap[iChannel] # MAL_CHANNEL_MONO
    ELSE TRUE

\* the two maps are distinct arrays wherever the pipeline calls this, so the
\* pointer comparison at the top of the function never decides
mal_channel_map_equal(channels, channelMapA, channelMapB) ==
    IF channels = 0 \/ channels > MAL_MAX_CHANNELS THEN FALSE
    ELSE \A iChannel \in 1..channels : channelMapA[iChannel] = channelMapB[iChannel]

\* a variant that looks at the first channel only
mal_channel_map_blank_first(channels, channelMap) ==
    channelMap[1] = MAL_CHANNEL_NONE

mal_channel_map_blank(channels, channelMap) ==
    \A iChannel \in 1..channels : channelMap[iChannel] = MAL_CHANNEL_NONE

mal_channel_map_contains_channel_position(channels, channelMap, channelPosition) ==
    \E iChannel \in 1..channels : channelMap[iChannel] = channelPosition

(***************************************************************************)
(* Channel router.  Weights are in units of 1/WeightDen, plane ratios in   *)
(* units of 1/RatioDen.                                                    *)
(***************************************************************************)
RatioDen == 100
WeightDen == RatioDen * RatioDen

\* rows of g_malChannelPlaneRatios: left, right, front, back, bottom, top
g_malChannelPlaneRatios(channelPosition) ==
    CASE channelPosition = 2  -> << 50,   0,  50,   0, 0,   0>>
      [] channelPosition = 3  -> <<  0,  50,  50,   0, 0,   0>>
      [] channelPosition = 4  -> <<  0,   0, 100,   0, 0,   0>>
      [] channelPosition = 6  -> << 50,   0,   0,  50, 0,   0>>
      [] channelPosition = 7  -> <<  0,  50,   0,  50, 0,   0>>
      [] channelPosition = 8  -> << 25,   0,  75,   0, 0,   0>>
      [] channelPosition = 9  -> <<  0,  25,  75,   0, 0,   0>>
      [] channelPosition = 10 -> <<  0,   0,   0, 100, 0,   0>>
      [] channelPosition = 11 -> <<100,   0,   0,   0, 0,   0>>
      [] channelPosition = 12 -> <<  0, 100,   0,   0, 0,   0>>
      [] channelPosition = 13 -> <<  0,   0,   0,   0, 0, 100>>
      [] channelPosition = 14 -> << 33,   0,  33,   0, 0,  34>>
      [] channelPosition = 15 -> <<  0,   0,  50,   0, 0,  50>>
      [] channelPosition = 16 -> <<  0,  33,  33,   0, 0,  34>>
      [] channelPosition = 17 -> << 33,   0,   0,  33, 0,  34>>
      [] channelPosition = 18 -> <<  0,   0,   0,  50, 0,  50>>
      [] channelPosition = 19 -> <<  0,  33,   0,  33, 0,  34>>
      [] OTHER                -> <<  0,   0,   0,   0, 0,   0>>

\* a variant that leaves out the left and right planes
PlanarWeightOfFrontBackOnly(channelPositionA, channelPositionB) ==
    LET a == g_malChannelPlaneRatios(channelPositionA)
        b == g_malChannelPlaneRatios(channelPositionB)
    IN a[3] * b[3] + a[4] * b[4] + a[5] * b[5] + a[6] * b[6]

mal_calculate_channel_position_planar_weight(channelPositionA, channelPositionB) ==
    LET a == g_malChannelPlaneRatios(channelPositionA)
        b == g_malChannelPlaneRatios(channelPositionB)
    IN a[1] * b[1] + a[2] * b[2] + a[3] * b[3] + a[4] * b[4] + a[5] * b[5] + a[6] * b[6]

mal_channel_router__is_spatial_channel_position(channelPosition) ==
    IF channelPosition = MAL_CHANNEL_NONE \/ channelPosition = MAL_CHANNEL_MONO
       \/ channelPosition = MAL_CHANNEL_LFE
    THEN FALSE
    ELSE \E i \in 1..6 : g_malChannelPlaneRatios(channelPosition)[i] # 0

IsPlainPosition(channelPos) ==
    channelPos # MAL_CHANNEL_NONE /\ channelPos # MAL_CHANNEL_MONO /\ channelPos # MAL_CHANNEL_LFE

\* a variant whose blend pass writes every pair of spatial positions,
\* whether or not the position is mapped and whatever the entry holds
RouterWeightsBlendingEverywhere(channelsIn, channelMapIn, channelsOut, channelMapOut, mixingMode) ==
    LET w1 == [i \in 1..channelsIn |-> [o \in 1..channelsOut |->
                  IF channelMapIn[i] = channelMapOut[o] THEN WeightDen ELSE 0]]
        w2 == [i \in 1..channelsIn |-> [o \in 1..channelsOut |->
                  IF channelMapIn[i] = MAL_CHANNEL_MONO /\ IsPlainPosition(channelMapOut[o])
                  THEN WeightDen ELSE w1[i][o]]]
        len == Cardinality({i \in 1..channelsIn : IsPlainPosition(channelMapIn[i])})
        w3 == [i \in 1..channelsIn |-> [o \in 1..channelsOut |->
                  IF len > 0 /\ channelMapOut[o] = MAL_CHANNEL_MONO
                     /\ IsPlainPosition(channelMapIn[i])
                  THEN w2[i][o] + (WeightDen \div len) ELSE w2[i][o]]]
        Blend(i, o) == IF mixingMode = "planar_blend"
                       THEN mal_calculate_channel_position_planar_weight(channelMapIn[i],
                                                                         channelMapOut[o])
                       ELSE 0
        \* unmapped input channels
        w4 == [i \in 1..channelsIn |-> [o \in 1..channelsOut |->
                  IF mal_channel_router__is_spatial_channel_position(channelMapIn[i])
                     /\ mal_channel_router__is_spatial_channel_position(channelMapOut[o])
                  THEN Blend(i, o) ELSE w3[i][o]]]
        \* unmapped output channels
        w5 == [i \in 1..channelsIn |-> [o \in 1..channelsOut |->
                  IF mal_channel_router__is_spatial_channel_position(channelMapOut[o])
                     /\ mal_channel_router__is_spatial_channel_position(channelMapIn[i])
                  THEN Blend(i, o) ELSE w4[i][o]]]
    IN IF mixingMode # "simple" THEN w5 ELSE w3

\* the weight table mal_channel_router_init computes, pass by pass
RouterWeights(channelsIn, channelMapIn, channelsOut, channelMapOut, mixingMode) ==
    LET w1 == [i \in 1..channelsIn |-> [o \in 1..channelsOut |->
                  IF channelMapIn[i] = channelMapOut[o] THEN WeightDen ELSE 0]]
        w2 == [i \in 1..channelsIn |-> [o \in 1..channelsOut |->
                  IF channelMapIn[i] = MAL_CHANNEL_MONO /\ IsPlainPosition(channelMapOut[o])
                  THEN WeightDen ELSE w1[i][o]]]
        len == Cardinality({i \in 1..channelsIn : IsPlainPosition(channelMapIn[i])})
        w3 == [i \in 1..channelsIn |-> [o \in 1..channelsOut |->
                  IF len > 0 /\ channelMapOut[o] = MAL_CHANNEL_MONO
                     /\ IsPlainPosition(channelMapIn[i])
                  THEN w2[i][o] + (WeightDen \div len) ELSE w2[i][o]]]
        Blend(i, o) == IF mixingMode = "planar_blend"
                       THEN mal_calculate_channel_position_planar_weight(channelMapIn[i],
                                                                         channelMapOut[o])
                       ELSE 0
        \* unmapped input channels
        w4 == [i \in 1..channelsIn |-> [o \in 1..channelsOut |->
                  IF mal_channel_router__is_spatial_channel_position(channelMapIn[i])
                     /\ ~mal_channel_map_contains_channel_position(channelsOut, channelMapOut,
                                                                   channelMapIn[i])
                     /\ mal_channel_router__is_spatial_channel_position(channelMapOut[o])
                     /\ w3[i][o] = 0
                  THEN Blend(i, o) ELSE w3[i][o]]]
        \* unmapped output channels
        w5 == [i \in 1..channelsIn |-> [o \in 1..channelsOut |->
                  IF mal_channel_router__is_spatial_channel_position(channelMapOut[o])
                     /\ ~mal_channel_map_contains_channel_position(channelsIn, channelMapIn,
                                                                   channelMapOut[o])
                     /\ mal_channel_router__is_spatial_channel_position(channelMapIn[i])
                     /\ w4[i][o] = 0
                  THEN Blend(i, o) ELSE w4[i][o]]]
    IN IF mixingMode # "simple" THEN w5 ELSE w3

\* the object after mal_zero_object: planar blend is mixing mode 0
ZeroRouter ==
    [result |-> "MAL_INVALID_ARGS", channelsIn |-> 0, channelsOut |-> 0,
     channelMapIn |-> <<>>, channelMapOut |-> <<>>, mixingMode |-> "planar_blend",
     onReadDeinterleaved |-> "NULL", isPassthrough |-> FALSE,
     isSimpleShuffle |-> FALSE, shuffleTable |-> <<>>, weights |-> <<>>]

mal_channel_router_init(channelsIn, channelMapIn, channelsOut, channelMapOut, mixingMode, onRead) ==
    LET valid == onRead # "NULL"
                 /\ mal_channel_map_valid(channelsIn, channelMapIn)
                 /\ mal_channel_map_valid(channelsOut, channelMapOut)
        isPassthrough ==
            channelsIn = channelsOut
            /\ (mal_channel_map_equal(channelsIn, channelMapIn, channelMapOut)
                \/ mal_channel_map_blank(channelsIn, channelMapIn)
                \/ mal_channel_map_blank(channelsOut, channelMapOut))
        areAllChannelPositionsPresent ==
            \A i \in 1..channelsIn : \E o \in 1..channelsOut : channelMapIn[i] = channelMapOut[o]
        isSimpleShuffle ==
            ~isPassthrough /\ channelsIn = channelsOut /\ areAllChannelPositionsPresent
        FirstMatch(i) == CHOOSE o \in 1..channelsOut :
                            /\ channelMapIn[i] = channelMapOut[o]
                            /\ \A o2 \in 1..(o - 1) : channelMapIn[i] # channelMapOut[o2]
    IN IF ~valid
       THEN ZeroRouter
       ELSE [result |-> "MAL_SUCCESS", channelsIn |-> channelsIn, channelsOut |-> channelsOut,
             channelMapIn |-> channelMapIn, channelMapOut |-> channelMapOut,
             mixingMode |-> mixingMode, onReadDeinterleaved |-> onRead,
             isPassthrough |-> isPassthrough, isSimpleShuffle |-> isSimpleShuffle,
             shuffleTable |-> IF isSimpleShuffle
                              THEN [i \in 1..channelsIn |-> FirstMatch(i)]
                              ELSE [i \in 1..channelsIn |-> 1],
             weights |-> RouterWeights(channelsIn, channelMapIn, channelsOut, channelMapOut,
                                       mixingMode)]

\* A routed sample is kept as the operands of its sum: one term per input
\* channel accumulated into it, [f |-> source frame, c |-> input channel,
\* w |-> weight].  A sample nothing was written to is Unwritten.
Unwritten == <<>>

Term(f, c, w) == [f |-> f, c |-> c, w |-> w]

\* memcpy / memset / accumulation of frameCount samples at a channel pointer
StoreAt(buf, off, samples) ==
    [n \in 1..Len(buf) |-> IF n > off /\ n <= off + Len(samples) THEN samples[n - off] ELSE buf[n]]

\* the shuffle loop runs over the input channels in order, so an output
\* channel named twice in the table keeps the last copy
RECURSIVE ShuffleCopy(_, _, _, _, _)
ShuffleCopy(r, framesIn, bufs, off, iChannelIn) ==
    IF iChannelIn > r.channelsIn THEN bufs
    ELSE LET iChannelOut == r.shuffleTable[iChannelIn]
             copied == [n \in 1..Len(framesIn) |-> <<Term(framesIn[n], iChannelIn, WeightDen)>>]
         IN ShuffleCopy(r, framesIn,
                        [bufs EXCEPT ![iChannelOut] = StoreAt(@, off[iChannelOut], copied)],
                        off, iChannelIn + 1)

\* ppSamplesOut[j] is bufs[j] from offset off[j] on; ppSamplesIn holds framesIn
mal_channel_router__do_routing(r, framesIn, bufs, off) ==
    IF r.isSimpleShuffle
    THEN ShuffleCopy(r, framesIn, bufs, off, 1)
    ELSE [iChannelOut \in 1..r.channelsOut |->
             StoreAt(bufs[iChannelOut], off[iChannelOut],
                     [n \in 1..Len(framesIn) |->
                         [iChannelIn \in 1..r.channelsIn |->
                             Term(framesIn[n], iChannelIn, r.weights[iChannelIn][iChannelOut])]])]

\* sizeof(temp) of the router's scratch block: MAL_MAX_CHANNELS * 256 floats
RouterTempSize == MAL_MAX_CHANNELS * 256 * 4

RouterMaxFrames(r) == mal_split_buffer(RouterTempSize, r.channelsIn, MAL_SIMD_ALIGNMENT) \div 4

\* The non-passthrough loop.  off are the offsets of ppNextSamplesOut from
\* ppSamplesOut; only the entries the loop dereferences are kept, and the
\* advance runs over iChannel < channelsIn as in the code.
RECURSIVE RouterLoop(_, _, _, _, _)
\* the end of an iteration that asked for framesToReadRightNow frames and
\* got rd
RouterContinue(r, frameCount, fr, bufs, off, framesToReadRightNow, rd) ==
    LET framesJustRead == Len(rd.fr)
        bufs1 == mal_channel_router__do_routing(r, rd.fr, bufs, off)
        totalFramesRead == Len(fr) + framesJustRead
        off1 == [iChannel \in 1..r.channelsOut |->
                   IF totalFramesRead < frameCount /\ iChannel <= r.channelsIn
                   THEN off[iChannel] + framesJustRead ELSE off[iChannel]]
        cx1 == [rd.cx EXCEPT !.ops = @ \cup {"router"}]
    IN IF framesJustRead = 0
       THEN [cx |-> rd.cx, fr |-> fr, out |-> bufs]
       ELSE IF framesJustRead < framesToReadRightNow
       THEN [cx |-> cx1, fr |-> fr \o rd.fr, out |-> bufs1]
       ELSE RouterLoop(cx1, frameCount, fr \o rd.fr, bufs1, off1)

RouterLoop(cx, frameCount, fr, bufs, off) ==
    IF Len(fr) >= frameCount
    THEN [cx |-> cx, fr |-> fr, out |-> bufs]
    ELSE RouterContinue(cx.router, frameCount, fr, bufs, off,
             Min(frameCount - Len(fr), RouterMaxFrames(cx.router)),
             Invoke(cx.router.onReadDeinterleaved, "router", cx,
                    Min(frameCount - Len(fr), RouterMaxFrames(cx.router))))

\* the passthrough branch: the callback writes straight into the output
RouterPassthrough(r, frameCount, rd) ==
    [cx |-> rd.cx, fr |-> rd.fr,
     out |-> [iChannel \in 1..r.channelsOut |->
                 [n \in 1..frameCount |->
                     IF n <= Len(rd.fr)
                     THEN <<Term(rd.fr[n], iChannel, WeightDen)>>
                     ELSE Unwritten]]]

\* frameCount <= 0xFFFFFFFF.  fr: the frames read, in order, as the next
\* stage counts them; out: what each output channel's buffer holds.
mal_channel_router_read_deinterleaved(cx, frameCount) ==
    IF cx.router.isPassthrough
    THEN RouterPassthrough(cx.router, frameCount,
                           Invoke(cx.router.onReadDeinterleaved, "router", cx, frameCount))
    ELSE RouterLoop(cx, frameCount, <<>>,
                    [iChannel \in 1..cx.router.channelsOut |->
                        [n \in 1..frameCount |-> Unwritten]],
                    [iChannel \in 1..cx.router.channelsOut |-> 0])

(***************************************************************************)
(* The DSP pipeline.                                                       *)
(***************************************************************************)
\* config: [formatIn, formatOut, channelsIn, channelsOut, channelMapIn,
\* channelMapOut, channelMixMode, sampleRateIn, sampleRateOut,
\* allowDynamicSampleRate, srcAlgorithm, neverConsumeEndOfInput, windowWidth].
\* The flags mal_dsp_init derives from the config:
isSRCRequiredForRates(config) == config.sampleRateIn # config.sampleRateOut

isSRCRequired(config) ==
    config.sampleRateIn # config.sampleRateOut \/ config.allowDynamicSampleRate

isChannelRoutingRequired(config) ==
    config.channelsIn # config.channelsOut
    \/ ~mal_channel_map_equal(config.channelsIn, config.channelMapIn, config.channelMapOut)

isPreFormatConversionRequired(config) ==
    ~(~isSRCRequired(config) /\ ~isChannelRoutingRequired(config))

isPostFormatConversionForFormats(config) == config.formatIn # config.formatOut

isPostFormatConversionRequired(config) ==
    IF ~isSRCRequired(config) /\ ~isChannelRoutingRequired(config)
    THEN config.formatIn # config.formatOut
    ELSE TRUE

isChannelRoutingAtStartOrEqual(config) == config.channelsOut <= config.channelsIn

isChannelRoutingAtStart(config) == config.channelsOut < config.channelsIn

\* The result is the DSP object with its SRC and its router; an init that
\* fails returns early and leaves the flags it has already set.
mal_dsp_init(config) ==
    LET formatConverterIn ==
            mal_format_converter_init(config.formatIn, "f32", config.channelsIn,
                                      "mal_dsp__pre_format_converter_on_read", "NULL")
        formatConverterOut ==
            IF isPreFormatConversionRequired(config)
            THEN mal_format_converter_init("f32", config.formatOut, config.channelsOut, "NULL",
                     "mal_dsp__post_format_converter_on_read_deinterleaved")
            ELSE mal_format_converter_init(config.formatIn, config.formatOut,
                     config.channelsOut, "mal_dsp__post_format_converter_on_read", "NULL")
        s == mal_src_init(config.sampleRateIn, config.sampleRateOut,
                          IF config.channelsIn < config.channelsOut
                          THEN config.channelsIn ELSE config.channelsOut,
                          config.srcAlgorithm, config.neverConsumeEndOfInput,
                          config.windowWidth, "mal_dsp__src_on_read_deinterleaved")
        r == IF s.result # "MAL_SUCCESS" THEN ZeroRouter
             ELSE mal_channel_router_init(config.channelsIn, config.channelMapIn,
                                          config.channelsOut, config.channelMapOut,
                                          config.channelMixMode,
                                          "mal_dsp__channel_router_on_read_deinterleaved")
    IN [dsp |-> [result |-> IF s.result # "MAL_SUCCESS" THEN s.result ELSE r.result,
                 config |-> config,
                 onRead |-> "client_on_read",
                 isDynamicSampleRateAllowed |-> config.allowDynamicSampleRate,
                 isPreFormatConversionRequired |-> isPreFormatConversionRequired(config),
                 isPostFormatConversionRequired |-> isPostFormatConversionRequired(config),
                 isChannelRoutingRequired |-> isChannelRoutingRequired(config),
                 isSRCRequired |-> isSRCRequired(config),
                 isChannelRoutingAtStart |-> isChannelRoutingAtStart(config),
                 isPassthrough |-> ~isPreFormatConversionRequired(config)
                                   /\ ~isPostFormatConversionRequired(config)
                                   /\ ~isChannelRoutingRequired(config)
                                   /\ ~isSRCRequired(config),
                 formatConverterIn |-> formatConverterIn,
                 formatConverterOut |-> formatConverterOut],
        src |-> s, router |-> r]

\* frameCount <= 0xFFFFFFFF.  The slower path asserts that the post-format
\* conversion is required; the assertion is compiled out of a release
\* build, so the read goes on and `asserted` records that it would fail.
mal_dsp_read_slow_path(cx, frameCount) ==
    mal_format_converter_read(
        [Called(cx, "dsp", "post") EXCEPT
            !.asserted = @ \/ ~cx.dsp.isPostFormatConversionRequired],
        "post", cx.dsp.formatConverterOut, frameCount)

mal_dsp_read(cx, frameCount) ==
    IF cx.dsp.isPassthrough
    THEN Invoke(cx.dsp.onRead, "dsp", cx, frameCount)
    ELSE mal_format_converter_read(
             [Called(cx, "dsp", "post") EXCEPT
                 !.asserted = @ \/ ~cx.dsp.isPostFormatConversionRequired],
             "post", cx.dsp.formatConverterOut, frameCount)

(***************************************************************************)
(* The sample rate converter on its own, reading from the client.  The     *)
(* client holds a finite stream: once it is exhausted every call of the    *)
(* callback returns no frame.                                              *)
(***************************************************************************)
NoDsp == [result |-> "none"]

\* no call overlaps another: every call runs from its entry to its return
NoThreads == [running |-> {}]

\* no device has been initialised
NoDevice == [state |-> "MAL_STATE_UNINITIALIZED"]

\* the rate pairs explored: factors 1, 1/2, 3/4, 2, 4 and 1/4
RatePairs == {<<48000, 48000>>, <<24000, 48000>>, <<36000, 48000>>, <<48000, 24000>>,
              <<96000, 24000>>, <<24000, 96000>>}

\* the SRC configurations explored: window width 0 selects the default of
\* MAL_SRC_SINC_DEFAULT_WINDOW_WIDTH, 1 is clamped to the minimum
SrcVariants ==
    [algorithm : {"none", "linear"}, neverConsumeEndOfInput : BOOLEAN, windowWidth : {0}]
    \cup [algorithm : {"sinc"}, neverConsumeEndOfInput : BOOLEAN, windowWidth : {0, 1}]

\* the frame counts asked of the SRC and the lengths of the client stream
SrcReadSizes == {1, 3, 300}
StreamLengths == {0, 5, 7, 8, 40, 288, 600}

NewClient(len) == [base |-> 1, pos |-> 0, avail |-> len]

\* An SRC on its own is also explored at a factor of 272, which is more
\* than the input frames one iteration has in its cache.
InitSrc ==
    /\ \E rates \in RatePairs \cup {<<272000, 1000>>}, v \in SrcVariants :
          src = mal_src_init(rates[1], rates[2], 1, v.algorithm, v.neverConsumeEndOfInput,
                             v.windowWidth, "client_on_read")
    /\ dsp = NoDsp
    /\ router = ZeroRouter
    /\ converter = ZeroConverter
    /\ threads = NoThreads
    /\ \E len \in StreamLengths : client = NewClient(len)
    /\ last = [op |-> "init", crashed |-> FALSE, hung |-> FALSE, dry |-> FALSE, later |-> 0,
               total |-> 0]
    /\ g_malLCG = 0
    /\ device = NoDevice
    /\ step = 0

\* The record of a call of mal_src_read_deinterleaved.  dry: the source has
\* returned no frame in this or an earlier call; later: the number of calls
\* made after the one in which it first did so that returned frames; total:
\* the number of frames all the calls so far have returned.
SrcReadRecord(r, frameCount) ==
    [op |-> "src_read", frameCount |-> frameCount,
     fr |-> r.fr, short |-> r.cx.short, zero |-> r.cx.zero, zeroAt |-> r.cx.zeroAt,
     pulled |-> r.cx.pulled, crashed |-> r.cx.crashed, hung |-> r.cx.hung,
     dry |-> last.dry \/ r.cx.zero,
     later |-> IF last.dry THEN last.later + (IF Len(r.fr) > 0 THEN 1 ELSE 0) ELSE 0,
     total |-> last.total + Len(r.fr)]

\* the state after a call that returned r
SrcReturn(r, frameCount) ==
    /\ src' = r.cx.src
    /\ client' = r.cx.client
    /\ last' = SrcReadRecord(r, frameCount)

\* src.read(frameCount)
SrcRead(frameCount) ==
    /\ step < MaxSteps
    /\ ~last.crashed
    /\ ~last.hung
    /\ SrcReturn(mal_src_read_deinterleaved(NewContext(dsp, router, src, client), frameCount),
                 frameCount)
    /\ step' = step + 1
    /\ UNCHANGED <<dsp, router, converter, threads, g_malLCG, device>>

NextSrc == \E frameCount \in SrcReadSizes : SrcRead(frameCount)

SpecSrc == InitSrc /\ [][NextSrc]_vars

(***************************************************************************)
(* The sample rate converter with its rates changed while it is in use:    *)
(* one thread reads from the SRC while another calls                       *)
(* mal_src_set_sample_rate.  The setter stores the two rates with two      *)
(* atomic exchanges; the reader loads them with two plain loads when it    *)
(* computes its factor, in the order the compiler chooses.  A step of a    *)
(* thread is one access to the shared rates; the rest of a read works on   *)
(* state only the reader touches.                                          *)
(*   threads.setter  the position of the thread inside                     *)
(*                   mal_src_set_sample_rate and the arguments of the call *)
(*   threads.reader  the position of the thread inside                     *)
(*                   mal_src_read_deinterleaved, the rates it has loaded   *)
(*                   (-1: not yet), the rates stored when it was called    *)
(*                   and whether a call of the setter overlapped its loads *)
(*   threads.written the pairs of rates given to mal_src_init and to the   *)
(*                   calls of mal_src_set_sample_rate                      *)
(*   threads.pos     the time in the input stream, in units of 1/TimeDen,  *)
(*                   the reads have advanced to: the sum over the reads of *)
(*                   frames returned times the factor of the read          *)
(*   threads.used    the rates the last read computed its factor from      *)
(***************************************************************************)
\* the rates given to mal_src_init and to mal_src_set_sample_rate: every
\* ratio of two of them that are not zero is a multiple of 1/TimeDen
RatePairsOf(call) ==
    IF call = "init" THEN {<<48000, 48000>>, <<48000, 24000>>, <<48000, 0>>}
    ELSE {<<24000, 96000>>, <<96000, 48000>>, <<48000, 48000>>, <<0, 48000>>}

\* the SRC configurations explored: the linear SRC and the sinc SRC with
\* the smallest window
RateVariants ==
    {[algorithm |-> "linear", neverConsumeEndOfInput |-> FALSE, windowWidth |-> 0],
     [algorithm |-> "sinc", neverConsumeEndOfInput |-> FALSE, windowWidth |-> 1]}

\* the number of calls made in one behaviour of SpecRates
MaxRateCalls == 4

\* mal_atomic_exchange_32(&pSRC->config.<field>, value)
mal_atomic_exchange_32(s, field, value) == [s EXCEPT ![field] = value]

IdleSetter == [pc |-> "idle"]
IdleReader == [pc |-> "idle"]

InitRates ==
    /\ \E rates \in RatePairsOf("init"), v \in RateVariants :
          /\ src = mal_src_init(rates[1], rates[2], 1, v.algorithm, v.neverConsumeEndOfInput,
                                v.windowWidth, "client_on_read")
          /\ threads = [setter |-> IdleSetter, reader |-> IdleReader,
                        written |-> {rates}, pos |-> 0, used |-> <<>>]
    /\ dsp = NoDsp
    /\ router = ZeroRouter
    /\ converter = ZeroConverter
    /\ \E len \in {5, 600} : client = NewClient(len)
    /\ last = [op |-> "init", crashed |-> FALSE]
    /\ g_malLCG = 0
    /\ device = NoDevice
    /\ step = 0

\* mal_src_set_sample_rate(sampleRateIn, sampleRateOut) up to its first
\* exchange: a zero rate is refused, otherwise the input rate is stored
SrcSetSampleRateStoreIn(sampleRateIn, sampleRateOut) ==
    /\ step < MaxRateCalls
    /\ ~last.crashed
    /\ src.result = "MAL_SUCCESS"
    /\ threads.setter.pc = "idle"
    /\ IF sampleRateIn = 0 \/ sampleRateOut = 0
       THEN /\ last' = [op |-> "set_sample_rate", result |-> "MAL_INVALID_ARGS",
                        sampleRateIn |-> sampleRateIn, sampleRateOut |-> sampleRateOut,
                        stored |-> <<src.sampleRateIn, src.sampleRateOut>>,
                        crashed |-> FALSE]
            /\ UNCHANGED <<src, threads>>
       ELSE /\ src' = mal_atomic_exchange_32(src, "sampleRateIn", sampleRateIn)
            /\ threads' = [threads EXCEPT
                              !.setter = [pc |-> "store_out", sampleRateIn |-> sampleRateIn,
                                          sampleRateOut |-> sampleRateOut],
                              !.written = @ \cup {<<sampleRateIn, sampleRateOut>>},
                              !.reader = IF @.pc = "loading"
                                         THEN [@ EXCEPT !.overlapped = TRUE] ELSE @]
            /\ UNCHANGED last
    /\ step' = step + 1
    /\ UNCHANGED <<dsp, router, converter, client, g_malLCG, device>>

\* the second exchange of mal_src_set_sample_rate and its return
SrcSetSampleRateStoreOut ==
    /\ threads.setter.pc = "store_out"
    /\ src' = mal_atomic_exchange_32(src, "sampleRateOut", threads.setter.sampleRateOut)
    /\ threads' = [threads EXCEPT !.setter = IdleSetter]
    /\ last' = [op |-> "set_sample_rate", result |-> "MAL_SUCCESS",
                sampleRateIn |-> threads.setter.sampleRateIn,
                sampleRateOut |-> threads.setter.sampleRateOut,
                stored |-> <<src'.sampleRateIn, src'.sampleRateOut>>,
                crashed |-> last.crashed]
    /\ UNCHANGED <<dsp, router, converter, client, step, g_malLCG, device>>

\* the entry of mal_src_read_deinterleaved(frameCount) into the linear or
\* the sinc reader
SrcReadCall(frameCount) ==
    /\ step < MaxRateCalls
    /\ ~last.crashed
    /\ src.result = "MAL_SUCCESS"
    /\ threads.reader.pc = "idle"
    /\ threads' = [threads EXCEPT
                      !.reader = [pc |-> "loading", frameCount |-> frameCount,
                                  sampleRateIn |-> -1, sampleRateOut |-> -1,
                                  stored |-> <<src.sampleRateIn, src.sampleRateOut>>,
                                  overlapped |-> threads.setter.pc # "idle"]]
    /\ step' = step + 1
    /\ UNCHANGED <<dsp, router, src, converter, client, last, g_malLCG, device>>

\* the load of pSRC->config.sampleRateIn in the computation of the factor
SrcReadLoadIn ==
    /\ threads.reader.pc = "loading"
    /\ threads.reader.sampleRateIn = -1
    /\ threads' = [threads EXCEPT !.reader.sampleRateIn = src.sampleRateIn]
    /\ UNCHANGED <<dsp, router, src, converter, client, last, step, g_malLCG, device>>

\* the load of pSRC->config.sampleRateOut in the computation of the factor
SrcReadLoadOut ==
    /\ threads.reader.pc = "loading"
    /\ threads.reader.sampleRateOut = -1
    /\ threads' = [threads EXCEPT !.reader.sampleRateOut = src.sampleRateOut]
    /\ UNCHANGED <<dsp, router, src, converter, client, last, step, g_malLCG, device>>

\* the SRC as the reader sees it: with the rates it has loaded
SrcAsLoaded ==
    [src EXCEPT !.sampleRateIn = threads.reader.sampleRateIn,
                !.sampleRateOut = threads.reader.sampleRateOut]

\* The record of a read that returned r.  A division by a zero rate gives
\* the reader a factor that is infinite or not a number, whose conversion
\* to an integer is undefined: the model follows such a read no further.
RatesReadRecord(r, undefined) ==
    [op |-> "src_read", frameCount |-> threads.reader.frameCount,
     fr |-> IF undefined THEN <<>> ELSE r.fr,
     sampleRateIn |-> threads.reader.sampleRateIn,
     sampleRateOut |-> threads.reader.sampleRateOut,
     stored |-> threads.reader.stored, overlapped |-> threads.reader.overlapped,
     start |-> threads.pos, previous |-> threads.used,
     crashed |-> undefined \/ r.cx.crashed]

\* the state after the read has returned r
RatesReturn(r, undefined) ==
    /\ src' = IF undefined THEN src
              ELSE [r.cx.src EXCEPT !.sampleRateIn = src.sampleRateIn,
                                    !.sampleRateOut = src.sampleRateOut]
    /\ client' = IF undefined THEN client ELSE r.cx.client
    /\ last' = RatesReadRecord(r, undefined)
    /\ threads' = [threads EXCEPT
                      !.reader = IdleReader,
                      !.pos = IF undefined THEN @ ELSE @ + Len(r.fr) * SrcFactor(SrcAsLoaded),
                      !.used = <<threads.reader.sampleRateIn, threads.reader.sampleRateOut>>]

\* the rest of the read, from the factor the loaded rates give
SrcReadRun ==
    /\ threads.reader.pc = "loading"
    /\ threads.reader.sampleRateIn # -1
    /\ threads.reader.sampleRateOut # -1
    /\ IF threads.reader.sampleRateIn = 0 \/ threads.reader.sampleRateOut = 0
       THEN RatesReturn([fr |-> <<>>], TRUE)
       ELSE RatesReturn(mal_src_read_deinterleaved(
                            NewContext(dsp, router, SrcAsLoaded, client),
                            threads.reader.frameCount), FALSE)
    /\ UNCHANGED <<dsp, router, converter, step, g_malLCG, device>>

NextRates ==
    \/ \E rates \in RatePairsOf("set_sample_rate") : SrcSetSampleRateStoreIn(rates[1], rates[2])
    \/ SrcSetSampleRateStoreOut
    \/ \E frameCount \in {3, 40} : SrcReadCall(frameCount)
    \/ SrcReadLoadIn
    \/ SrcReadLoadOut
    \/ SrcReadRun

SpecRates == InitRates /\ [][NextRates]_vars

(***************************************************************************)
(* The channel router on its own, reading from the client.                 *)
(***************************************************************************)
\* the pairs of channel maps explored: mono to stereo, stereo to mono,
\* stereo to 2.1, swapped stereo (a simple shuffle), mono to mono (passthrough)
RouterLayouts ==
    {<<<<MAL_CHANNEL_MONO>>, <<MAL_CHANNEL_FRONT_LEFT, MAL_CHANNEL_FRONT_RIGHT>>>>,
     <<<<MAL_CHANNEL_FRONT_LEFT, MAL_CHANNEL_FRONT_RIGHT>>, <<MAL_CHANNEL_MONO>>>>,
     <<<<MAL_CHANNEL_FRONT_LEFT, MAL_CHANNEL_FRONT_RIGHT>>,
       <<MAL_CHANNEL_FRONT_LEFT, MAL_CHANNEL_FRONT_RIGHT, MAL_CHANNEL_LFE>>>>,
     <<<<MAL_CHANNEL_FRONT_LEFT, MAL_CHANNEL_FRONT_RIGHT>>,
       <<MAL_CHANNEL_FRONT_RIGHT, MAL_CHANNEL_FRONT_LEFT>>>>,
     <<<<MAL_CHANNEL_MONO>>, <<MAL_CHANNEL_MONO>>>>}

RouterMixingModes == {"planar_blend", "simple"}

\* the frame counts asked of the router, below and above the frames its
\* scratch block holds (8192 for one input channel, 4096 for two), and the
\* lengths of the client stream
RouterReadSizes == {1, 3, 8193}
RouterStreamLengths == {0, 2, 9000}

InitRouter ==
    /\ \E layout \in RouterLayouts, mixingMode \in RouterMixingModes :
          router = mal_channel_router_init(Len(layout[1]), layout[1], Len(layout[2]),
                                           layout[2], mixingMode, "client_on_read")
    /\ dsp = NoDsp
    /\ src = ZeroSrc
    /\ converter = ZeroConverter
    /\ threads = NoThreads
    /\ \E len \in RouterStreamLengths : client = NewClient(len)
    /\ last = [op |-> "init"]
    /\ g_malLCG = 0
    /\ device = NoDevice
    /\ step = 0

\* the record of a call of mal_channel_router_read_deinterleaved: fr are the
\* frames the call counts as read, out what it left in the output buffers
RouterReadRecord(r, frameCount) ==
    [op |-> "router_read", frameCount |-> frameCount, fr |-> r.fr, out |-> r.out,
     pulled |-> r.cx.pulled, asked |-> r.cx.asked, short |-> r.cx.short]

\* the state after a call that returned r
RouterReturn(r, frameCount) ==
    /\ router' = r.cx.router
    /\ client' = r.cx.client
    /\ last' = RouterReadRecord(r, frameCount)

\* router.read(frameCount)
RouterRead(frameCount) ==
    /\ step < MaxSteps
    /\ router.result = "MAL_SUCCESS"
    /\ RouterReturn(mal_channel_router_read_deinterleaved(
                        NewContext(dsp, router, src, client), frameCount), frameCount)
    /\ step' = step + 1
    /\ UNCHANGED <<dsp, src, converter, threads, g_malLCG, device>>

NextRouter == \E frameCount \in RouterReadSizes : RouterRead(frameCount)

SpecRouter == InitRouter /\ [][NextRouter]_vars

(***************************************************************************)
(* The channel router initialised from every pair of channel maps of one   *)
(* or two channels over a few positions, valid or not, and from stereo to  *)
(* 5.1, in either mixing mode, and read in small pieces.                   *)
(***************************************************************************)
InitRouterMaps ==
    /\ \E mixingMode \in RouterMixingModes :
          \/ \E channelsIn \in 1..2, channelsOut \in 1..2 :
                \E channelMapIn \in [1..channelsIn -> MAL_CHANNEL_NONE..MAL_CHANNEL_LFE],
                   channelMapOut \in [1..channelsOut -> MAL_CHANNEL_NONE..MAL_CHANNEL_LFE] :
                   router = mal_channel_router_init(channelsIn, Array(channelMapIn),
                                                    channelsOut, Array(channelMapOut),
                                                    mixingMode, "client_on_read")
          \* stereo to 5.1
          \/ router = mal_channel_router_init(
                          2, <<MAL_CHANNEL_FRONT_LEFT, MAL_CHANNEL_FRONT_RIGHT>>,
                          6, <<MAL_CHANNEL_FRONT_LEFT, MAL_CHANNEL_FRONT_RIGHT,
                               MAL_CHANNEL_FRONT_CENTER, MAL_CHANNEL_LFE,
                               MAL_CHANNEL_SIDE_LEFT, MAL_CHANNEL_SIDE_RIGHT>>,
                          mixingMode, "client_on_read")
    /\ dsp = NoDsp
    /\ src = ZeroSrc
    /\ converter = ZeroConverter
    /\ threads = NoThreads
    /\ client = NewClient(3)
    /\ last = [op |-> "init"]
    /\ g_malLCG = 0
    /\ device = NoDevice
    /\ step = 0

NextRouterMaps == \E frameCount \in {1, 2} : RouterRead(frameCount)

SpecRouterMaps == InitRouterMaps /\ [][NextRouterMaps]_vars

(***************************************************************************)
(* The DSP pipeline reading from the client.  The object is initialised    *)
(* from one of the configurations below; an application only reads from a  *)
(* DSP whose init succeeded.                                               *)
(***************************************************************************)
Formats == {"s16", "f32"}

\* the channel maps explored; the last two are rejected by
\* mal_channel_map_valid (a mono position among two channels, no channel)
ChannelMaps ==
    {<<MAL_CHANNEL_MONO>>,
     <<MAL_CHANNEL_FRONT_LEFT, MAL_CHANNEL_FRONT_RIGHT>>,
     <<MAL_CHANNEL_FRONT_RIGHT, MAL_CHANNEL_FRONT_LEFT>>,
     <<MAL_CHANNEL_NONE, MAL_CHANNEL_NONE>>,
     <<MAL_CHANNEL_MONO, MAL_CHANNEL_FRONT_LEFT>>,
     <<>>}

DspConfig(formatIn, formatOut, channelMapIn, channelMapOut, rates, dynamic, v) ==
    [formatIn |-> formatIn, formatOut |-> formatOut,
     channelsIn |-> Len(channelMapIn), channelsOut |-> Len(channelMapOut),
     channelMapIn |-> channelMapIn, channelMapOut |-> channelMapOut,
     channelMixMode |-> "planar_blend",
     sampleRateIn |-> rates[1], sampleRateOut |-> rates[2],
     allowDynamicSampleRate |-> dynamic,
     srcAlgorithm |-> v.algorithm, neverConsumeEndOfInput |-> v.neverConsumeEndOfInput,
     windowWidth |-> v.windowWidth]

LinearVariant == [algorithm |-> "linear", neverConsumeEndOfInput |-> FALSE, windowWidth |-> 0]

\* every combination of formats, channel maps, equal or unequal rates and
\* the dynamic rate switch, with the linear SRC; and every SRC variant at
\* every rate pair, between mono and stereo
DspConfigs ==
    {DspConfig(fi, fo, mi, mo, rates, dynamic, LinearVariant) :
        fi \in Formats, fo \in Formats, mi \in ChannelMaps, mo \in ChannelMaps,
        rates \in {<<48000, 48000>>, <<48000, 24000>>}, dynamic \in BOOLEAN}
    \cup
    {DspConfig("s16", "s16", maps[1], maps[2], rates, FALSE, v) :
        maps \in {<<<<MAL_CHANNEL_MONO>>, <<MAL_CHANNEL_MONO>>>>,
                  <<<<MAL_CHANNEL_MONO>>,
                    <<MAL_CHANNEL_FRONT_LEFT, MAL_CHANNEL_FRONT_RIGHT>>>>,
                  <<<<MAL_CHANNEL_FRONT_LEFT, MAL_CHANNEL_FRONT_RIGHT>>,
                    <<MAL_CHANNEL_MONO>>>>},
        rates \in RatePairs, v \in SrcVariants}

DspReadSizes == {1, 300}
DspStreamLengths == {0, 3, 4, 600}

Init ==
    /\ \E config \in DspConfigs :
          LET d == mal_dsp_init(config)
          IN dsp = d.dsp /\ src = d.src /\ router = d.router
    /\ converter = ZeroConverter
    /\ threads = NoThreads
    /\ \E len \in DspStreamLengths : client = NewClient(len)
    /\ last = [op |-> "init", crashed |-> FALSE, starved |-> FALSE]
    /\ g_malLCG = 0
    /\ device = NoDevice
    /\ step = 0

\* The record of a call of mal_dsp_read.  starved: the client has returned
\* fewer frames than it was asked for in this or an earlier call.
DspReadRecord(r, frameCount) ==
    [op |-> "dsp_read", frameCount |-> frameCount, fr |-> r.fr,
     calls |-> r.cx.calls, ops |-> r.cx.ops, asked |-> r.cx.asked,
     short |-> r.cx.short, zero |-> r.cx.zero, pulled |-> r.cx.pulled,
     asserted |-> r.cx.asserted, crashed |-> r.cx.crashed,
     starved |-> last.starved \/ r.cx.short]

\* the state after a call that returned r
DspReturn(r, frameCount) ==
    /\ dsp' = r.cx.dsp
    /\ router' = r.cx.router
    /\ src' = r.cx.src
    /\ client' = r.cx.client
    /\ last' = DspReadRecord(r, frameCount)

\* dsp.read(frameCount)
DspRead(frameCount) ==
    /\ step < MaxSteps
    /\ dsp.result = "MAL_SUCCESS"
    /\ ~last.crashed
    /\ DspReturn(mal_dsp_read(NewContext(dsp, router, src, client), frameCount), frameCount)
    /\ step' = step + 1
    /\ UNCHANGED <<converter, threads, g_malLCG, device>>

Next == \E frameCount \in DspReadSizes : DspRead(frameCount)

Spec == Init /\ [][Next]_vars

(***************************************************************************)
(* The format converter on its own, reading from the client.  The          *)
(* converter is initialised from any config, with known and unknown        *)
(* formats, no, one or two channels, and either, or neither, callback.     *)
(***************************************************************************)
InitConverter ==
    /\ \E formatIn \in {"unknown", "s16", "f32"}, formatOut \in {"unknown", "s16", "f32"},
          channels \in {0, 1, 2},
          callbacks \in {<<"client_on_read", "NULL">>, <<"NULL", "client_on_read">>,
                         <<"NULL", "NULL">>} :
          converter = mal_format_converter_init(formatIn, formatOut, channels,
                                                callbacks[1], callbacks[2])
    /\ dsp = NoDsp
    /\ router = ZeroRouter
    /\ src = ZeroSrc
    /\ threads = NoThreads
    /\ \E len \in {3, 600} : client = NewClient(len)
    /\ last = [op |-> "init", crashed |-> FALSE]
    /\ g_malLCG = 0
    /\ device = NoDevice
    /\ step = 0

\* A read for at least one frame has no defined outcome when it divides
\* the size of its temporary buffer by a sample size or a channel count of
\* zero, when it calls a read callback that is NULL, or when it converts
\* the frames it read with the conversion function of an unknown output
\* format, which the init left NULL.
ConverterReadUndefined(conv, c) ==
    IF conv.onRead # "NULL"
    THEN /\ conv.formatIn # conv.formatOut
         /\ \/ mal_get_bytes_per_sample(conv.formatIn) = 0
            \/ conv.channels = 0
            \/ mal_get_bytes_per_sample(conv.formatOut) = 0 /\ c.avail > 0
    ELSE \/ mal_get_bytes_per_sample(conv.formatIn) = 0
         \/ conv.onReadDeinterleaved = "NULL"
         \/ /\ conv.formatIn # conv.formatOut
            /\ mal_get_bytes_per_sample(conv.formatOut) = 0
            /\ conv.channels > 0 /\ c.avail > 0

\* the state after a call that returned r, or that never returned
ConverterReturn(r, frameCount, undefined) ==
    /\ client' = IF undefined THEN client ELSE r.cx.client
    /\ last' = [op |-> "converter_read", frameCount |-> frameCount,
                fr |-> IF undefined THEN <<>> ELSE r.fr,
                crashed |-> undefined]

\* converter.read(frameCount)
ConverterRead(frameCount) ==
    /\ step < MaxSteps
    /\ converter.result = "MAL_SUCCESS"
    /\ ~last.crashed
    /\ IF ConverterReadUndefined(converter, client)
       THEN ConverterReturn([fr |-> <<>>], frameCount, TRUE)
       ELSE ConverterReturn(mal_format_converter_read(NewContext(dsp, router, src, client),
                                "converter", converter, frameCount), frameCount, FALSE)
    /\ step' = step + 1
    /\ UNCHANGED <<dsp, router, src, converter, threads, g_malLCG, device>>

NextConverter == \E frameCount \in {1, 2, 300} : ConverterRead(frameCount)

SpecConverter == InitConverter /\ [][NextConverter]_vars

(***************************************************************************)
(* The DSP pipeline with its sample rates changed between reads.  The      *)
(* rates of a DSP are those of its SRC: pDSP->src.config.sampleRateIn and  *)
(* sampleRateOut.                                                          *)
(***************************************************************************)
mal_src_set_input_sample_rate(s, sampleRateIn) ==
    IF sampleRateIn = 0 THEN s
    ELSE mal_atomic_exchange_32(s, "sampleRateIn", sampleRateIn)

mal_src_set_output_sample_rate(s, sampleRateOut) ==
    IF sampleRateOut = 0 THEN s
    ELSE mal_atomic_exchange_32(s, "sampleRateOut", sampleRateOut)

\* the SRC is given the rates it holds once more
mal_dsp_refresh_sample_rate(s) ==
    [result |-> "MAL_SUCCESS",
     src |-> mal_src_set_output_sample_rate(
                 mal_src_set_input_sample_rate(s, s.sampleRateIn), s.sampleRateOut)]

mal_dsp_set_input_sample_rate(d, s, sampleRateIn) ==
    IF sampleRateIn = 0 THEN [result |-> "MAL_INVALID_ARGS", src |-> s]
    ELSE IF ~d.isDynamicSampleRateAllowed THEN [result |-> "MAL_INVALID_OPERATION", src |-> s]
    ELSE mal_dsp_refresh_sample_rate(mal_atomic_exchange_32(s, "sampleRateIn", sampleRateIn))

mal_dsp_set_output_sample_rate(d, s, sampleRateOut) ==
    IF sampleRateOut = 0 THEN [result |-> "MAL_INVALID_ARGS", src |-> s]
    ELSE IF ~d.isDynamicSampleRateAllowed THEN [result |-> "MAL_INVALID_OPERATION", src |-> s]
    ELSE mal_dsp_refresh_sample_rate(mal_atomic_exchange_32(s, "sampleRateOut", sampleRateOut))

mal_dsp_set_sample_rate_unchecked(d, s, sampleRateIn, sampleRateOut) ==
    IF sampleRateIn = 0 \/ sampleRateOut = 0 THEN [result |-> "MAL_INVALID_ARGS", src |-> s]
    ELSE mal_dsp_refresh_sample_rate(
             mal_atomic_exchange_32(mal_atomic_exchange_32(s, "sampleRateIn", sampleRateIn),
                                    "sampleRateOut", sampleRateOut))

mal_dsp_set_sample_rate(d, s, sampleRateIn, sampleRateOut) ==
    IF sampleRateIn = 0 \/ sampleRateOut = 0 THEN [result |-> "MAL_INVALID_ARGS", src |-> s]
    ELSE IF ~d.isDynamicSampleRateAllowed THEN [result |-> "MAL_INVALID_OPERATION", src |-> s]
    ELSE mal_dsp_refresh_sample_rate(
             mal_atomic_exchange_32(mal_atomic_exchange_32(s, "sampleRateIn", sampleRateIn),
                                    "sampleRateOut", sampleRateOut))

\* a DSP between mono and mono or stereo and mono, at equal or unequal
\* rates, with and without the dynamic rate switch
InitDspRates ==
    /\ \E mi \in {<<MAL_CHANNEL_MONO>>, <<MAL_CHANNEL_FRONT_LEFT, MAL_CHANNEL_FRONT_RIGHT>>},
          rates \in {<<48000, 48000>>, <<48000, 24000>>}, dynamic \in BOOLEAN :
          LET d == mal_dsp_init(DspConfig("s16", "s16", mi, <<MAL_CHANNEL_MONO>>, rates,
                                          dynamic, LinearVariant))
          IN dsp = d.dsp /\ src = d.src /\ router = d.router
    /\ converter = ZeroConverter
    /\ threads = NoThreads
    /\ \E len \in {3, 600} : client = NewClient(len)
    /\ last = [op |-> "init", crashed |-> FALSE, starved |-> FALSE]
    /\ g_malLCG = 0
    /\ device = NoDevice
    /\ step = 0

\* the state after a call `op` that set the rates and returned r; before
\* the call the SRC held the rates `stored`
DspSetReturn(op, sampleRateIn, sampleRateOut, r) ==
    /\ step < MaxSteps
    /\ dsp.result = "MAL_SUCCESS"
    /\ ~last.crashed
    /\ src' = r.src
    /\ last' = [op |-> op, result |-> r.result,
                sampleRateIn |-> sampleRateIn, sampleRateOut |-> sampleRateOut,
                stored |-> <<src.sampleRateIn, src.sampleRateOut>>,
                crashed |-> FALSE, starved |-> last.starved]
    /\ step' = step + 1
    /\ UNCHANGED <<dsp, router, converter, client, threads, g_malLCG, device>>

\* dsp.set_input_sample_rate(sampleRateIn)
DspSetInputSampleRate(sampleRateIn) ==
    DspSetReturn("dsp_set_input_sample_rate", sampleRateIn, src.sampleRateOut,
                 mal_dsp_set_input_sample_rate(dsp, src, sampleRateIn))

\* dsp.set_output_sample_rate(sampleRateOut)
DspSetOutputSampleRate(sampleRateOut) ==
    DspSetReturn("dsp_set_output_sample_rate", src.sampleRateIn, sampleRateOut,
                 mal_dsp_set_output_sample_rate(dsp, src, sampleRateOut))

\* dsp.set_sample_rate(sampleRateIn, sampleRateOut)
DspSetSampleRate(sampleRateIn, sampleRateOut) ==
    DspSetReturn("dsp_set_sample_rate", sampleRateIn, sampleRateOut,
                 mal_dsp_set_sample_rate(dsp, src, sampleRateIn, sampleRateOut))

NextDspRates ==
    \/ \E sampleRateIn \in {0, 24000, 48000} : DspSetInputSampleRate(sampleRateIn)
    \/ \E sampleRateOut \in {0, 24000, 48000} : DspSetOutputSampleRate(sampleRateOut)
    \/ \E rates \in {<<0, 48000>>, <<24000, 48000>>, <<48000, 24000>>} :
          DspSetSampleRate(rates[1], rates[2])
    \/ \E frameCount \in DspReadSizes : DspRead(frameCount)

SpecDspRates == InitDspRates /\ [][NextDspRates]_vars

(***************************************************************************)
(* Random numbers and dither.  g_malLCG is an mal_int32 shared by every    *)
(* converter of the process.  The products of the generator are formed on  *)
(* 16-bit halves so that no intermediate value leaves the 32 bits of the   *)
(* code; the quotient of mal_rand_f64 and its product with hi - lo are     *)
(* doubles in the code and exact here.                                     *)
(***************************************************************************)
\* mal_rand_s32: r = (MAL_LCG_A * lcg + MAL_LCG_C) % MAL_LCG_M, the low 32
\* bits of the sum taken as an mal_int32 (the sum is formed in int: whether
\* the build keeps it in 32 or in 64 bits, its low 32 bits are these)
mal_rand_s32(lcg) ==
    LET lo == lcg % 65536
        hi == (lcg \div 65536) % 65536
        al == MAL_LCG_A % 65536
        ah == MAL_LCG_A \div 65536
        p0 == al * lo + MAL_LCG_C
        p1 == (((ah * lo) % 65536) + ((al * hi) % 65536) + (p0 \div 65536)) % 65536
    IN (IF p1 >= 32768 THEN p1 - 65536 ELSE p1) * 65536 + (p0 % 65536)

RECURSIVE MulDiv(_, _, _, _, _, _)
\* the quotient of a * d by m, for 0 <= a < m and 0 <= d < 2^(k + 1), by
\* binary long multiplication from bit k of d down: q * m + r is a times
\* the bits of d above bit k
MulDiv(a, d, m, k, q, r) ==
    IF k < 0 THEN q
    ELSE MulDiv(a, d, m, k - 1,
                2 * q + (IF r >= m - r THEN 1 ELSE 0)
                      + (IF (d \div 2^k) % 2 = 1
                            /\ (IF r >= m - r THEN r - (m - r) ELSE r + r) >= m - a
                         THEN 1 ELSE 0),
                IF (d \div 2^k) % 2 = 0
                THEN (IF r >= m - r THEN r - (m - r) ELSE r + r)
                ELSE IF (IF r >= m - r THEN r - (m - r) ELSE r + r) >= m - a
                THEN (IF r >= m - r THEN r - (m - r) ELSE r + r) - (m - a)
                ELSE (IF r >= m - r THEN r - (m - r) ELSE r + r) + a)

\* mal_rand_range_s32(lo, hi) on the generator state lcg: the value
\* lo + (mal_int32)(x * (hi - lo)) for x = mal_rand_f64() and the state the
\* call leaves.  mal_rand_f64 returns (mal_rand_s32() + 0x80000000) /
\* (double)0x7FFFFFFF: the constant is unsigned, so the sum is r + 2^31
\* taken modulo 2^32, a value u in 0 .. 2^32 - 1, here whole * 0x7FFFFFFF +
\* part.
mal_rand_range_s32(lo, hi, lcg) ==
    LET whole(r) == IF r < -1 THEN 0 ELSE IF r < 2147483646 THEN 1 ELSE 2
        part(r) == IF r < -1 THEN (r + 2147483647) + 1
                   ELSE IF r = -1 THEN 0
                   ELSE IF r < 2147483646 THEN r + 1
                   ELSE r - 2147483646
        scaled(r) == [value |-> lo + whole(r) * (hi - lo)
                                   + MulDiv(part(r), hi - lo, 2147483647, 24, 0, 0),
                      lcg |-> r]
    IN scaled(mal_rand_s32(lcg))

\* mal_dither_s32 on the generator state lcg
mal_dither_s32(ditherMode, ditherMin, ditherMax, lcg) ==
    IF ditherMode = "rectangle"
    THEN mal_rand_range_s32(ditherMin, ditherMax, lcg)
    ELSE IF ditherMode = "triangle"
    THEN LET sum(a, b) == [value |-> a.value + b.value, lcg |-> b.lcg]
             second(a) == sum(a, mal_rand_range_s32(0, ditherMax, a.lcg))
         IN second(mal_rand_range_s32(ditherMin, 0, lcg))
    ELSE [value |-> 0, lcg |-> lcg]

(***************************************************************************)
(* Sample conversion.  A sample of an integer format is that integer.  A   *)
(* float is a record [m, e] that stands for m * 2^e, with |m| <= 2^24 and  *)
(* -30 <= e: every operation on floats rounds its exact result to the 24   *)
(* significant bits of an IEEE single, to nearest and ties to even, as     *)
(* each assignment to a float variable of the code does.                   *)
(***************************************************************************)
\* the float nearest to sign * (hi * 4096 + lo) * 2^e, for 0 <= lo < 4096
F32Round(sign, hi, lo, e) ==
    LET width == CHOOSE b \in 0..30 : hi < 2^b /\ (b = 0 \/ hi >= 2^(b - 1))
        sh == width + 12 - 24
        q == IF sh <= 12 THEN hi * 2^(12 - sh) + (lo \div 2^sh)
             ELSE hi \div 2^(sh - 12)
        rem == IF sh <= 12 THEN lo % 2^sh
               ELSE (hi % 2^(sh - 12)) * 4096 + lo
        half == 2^(sh - 1)
        up == rem > half \/ (rem = half /\ q % 2 = 1)
    IN IF sh <= 0 THEN [m |-> sign * (hi * 4096 + lo), e |-> e]
       ELSE [m |-> sign * (IF up THEN q + 1 ELSE q), e |-> e + sh]

\* x + k for a float x and an integer k with |k| <= 2
F32Add(x, k) ==
    LET v == IF x.e >= 0 THEN x.m * 2^x.e + k ELSE x.m + k * 2^(-x.e)
        a == IF v < 0 THEN -v ELSE v
    IN F32Round(IF v < 0 THEN -1 ELSE 1, a \div 4096, a % 4096, IF x.e >= 0 THEN 0 ELSE x.e)

\* x * (k * 2^e) for a float x and a constant k * 2^e with 0 <= k < 2^15
F32Mul(x, k, e) ==
    LET a == IF x.m < 0 THEN -x.m ELSE x.m
        low == (a % 4096) * k
    IN F32Round(IF x.m < 0 THEN -1 ELSE 1, (a \div 4096) * k + (low \div 4096), low % 4096,
                x.e + e)

\* (mal_int32)x for a float x: the integer part, towards zero
F32ToInt(x) ==
    IF x.e >= 0 THEN x.m * 2^x.e
    ELSE IF x.m < 0 THEN -((-x.m) \div 2^(-x.e)) ELSE x.m \div 2^(-x.e)

\* ((x < -1) ? -1 : ((x > 1) ? 1 : x))
F32Clip(x) ==
    IF F32ToInt(x) <= -1 THEN [m |-> -1, e |-> 0]
    ELSE IF F32ToInt(x) >= 1 THEN [m |-> 1, e |-> 0]
    ELSE x

\* mal_pcm_u8_to_f32: x * 0.00784313725490196078f - 1; the constant is the
\* float 8421505 * 2^-30
mal_pcm_u8_to_f32(x) == F32Add(F32Mul([m |-> 8421505, e |-> -30], x, 0), -1)

\* mal_pcm_s16_to_f32: x * 0.000030517578125f, the constant is 2^-15
mal_pcm_s16_to_f32(x) == F32Mul([m |-> x, e |-> 0], 1, -15)

\* mal_pcm_f32_to_u8 of one sample; the dither added to x is zero with
\* mal_dither_mode_none
mal_pcm_f32_to_u8(x) == F32ToInt(F32Mul(F32Add(F32Clip(x), 1), 255, -1)) % 256

\* mal_pcm_f32_to_s16 of one sample, without dither
mal_pcm_f32_to_s16(x) == F32ToInt(F32Mul(F32Clip(x), 32767, 0))

\* x + dither of the dithered conversions from 32 bits: 0x7FFFFFFF when
\* (mal_int64)x + dither exceeds it, else the sum in 32 bits
AddDither32(x, dither) ==
    IF dither > 0 /\ x > 2147483647 - dither THEN 2147483647
    ELSE IF dither < 0 /\ x < (-2147483647 - 1) - dither
    THEN ((((x + 2147483647) + 1) + dither) + 2147483647) + 1
    ELSE x + dither

\* mal_pcm_s16_to_u8 of one sample; dither: what mal_dither_s32 returned
mal_pcm_s16_to_u8(x, ditherMode, dither) ==
    LET d == IF ditherMode = "none" THEN x
             ELSE IF x + dither <= 32767 THEN ((x + dither + 32768) % 65536) - 32768
             ELSE 32767
    IN ((d \div 256) + 128) % 256

\* mal_pcm_s32_to_u8 of one sample
mal_pcm_s32_to_u8(x, ditherMode, dither) ==
    (((IF ditherMode = "none" THEN x ELSE AddDither32(x, dither)) \div 16777216) + 128) % 256

\* mal_pcm_s32_to_s16 of one sample
mal_pcm_s32_to_s16(x, ditherMode, dither) ==
    (IF ditherMode = "none" THEN x ELSE AddDither32(x, dither)) \div 65536

\* mal_pcm_convert of one sample on the generator state lcg: the sample
\* written, the dither value drawn and the state the call leaves.  The
\* conversions to f32 and from f32 are explored without dither.
mal_pcm_convert(formatOut, formatIn, x, ditherMode, lcg) ==
    LET out(dither) ==
            CASE formatOut = formatIn -> x
              [] formatIn = "s16" /\ formatOut = "u8" -> mal_pcm_s16_to_u8(x, ditherMode, dither)
              [] formatIn = "s32" /\ formatOut = "u8" -> mal_pcm_s32_to_u8(x, ditherMode, dither)
              [] formatIn = "s32" /\ formatOut = "s16" -> mal_pcm_s32_to_s16(x, ditherMode, dither)
              [] formatIn = "u8" /\ formatOut = "f32" -> mal_pcm_u8_to_f32(x)
              [] formatIn = "s16" /\ formatOut = "f32" -> mal_pcm_s16_to_f32(x)
              [] formatIn = "f32" /\ formatOut = "u8" -> mal_pcm_f32_to_u8(x)
              [] formatIn = "f32" /\ formatOut = "s16" -> mal_pcm_f32_to_s16(x)
        converted(d) == [out |-> out(d.value), dither |-> d.value, lcg |-> d.lcg]
    IN converted(CASE formatIn = "s16" /\ formatOut = "u8" /\ ditherMode # "none" ->
                          mal_dither_s32(ditherMode, -128, 127, lcg)
                   [] formatIn = "s32" /\ formatOut = "u8" /\ ditherMode # "none" ->
                          mal_dither_s32(ditherMode, -8388608, 8388607, lcg)
                   [] formatIn = "s32" /\ formatOut = "s16" /\ ditherMode # "none" ->
                          mal_dither_s32(ditherMode, -32768, 32767, lcg)
                   [] OTHER -> [value |-> 0, lcg |-> lcg])

(***************************************************************************)
(* Two DSP objects of one process converting samples.  A DSP whose SRC or  *)
(* router is in use converts its input to f32 (pre-format conversion) and  *)
(* the f32 samples to the output format (post-format conversion); a DSP    *)
(* that only converts the format does so in one conversion.  Either        *)
(* passes its dither mode to its converters, and every dithered conversion *)
(* draws from g_malLCG.                                                    *)
(*   converter[i].own  the state the generator would be in had only the    *)
(*                     reads of DSP i drawn from it since it was seeded    *)
(***************************************************************************)
\* the samples the client of a DSP supplies, by format
PcmSamples(format) ==
    CASE format = "u8" -> {0, 1, 2, 127, 128, 129, 254, 255}
      [] format = "s16" -> {-32768, -32767, -32640, -129, -1, 0, 1, 255, 256, 32639, 32640, 32767}
      [] format = "s32" -> {-2147483647 - 1, -2147483647, -65536, -1, 0, 1, 65535, 16777216,
                            2147418112, 2147483647}
      [] format = "f32" -> {[m |-> k, e |-> -1] : k \in {-4, -3, -2, -1, 0, 1, 2, 3, 4}}

InitPcm ==
    /\ \E c \in [formatIn : {"s16"}, formatOut : {"u8"}, pre : {FALSE},
                 ditherMode : {"none", "rectangle", "triangle"}]
             \cup [formatIn : {"s32"}, formatOut : {"u8", "s16"}, pre : {FALSE},
                   ditherMode : {"none", "rectangle", "triangle"}]
             \cup [formatIn : {"f32"}, formatOut : {"u8", "s16"}, pre : {FALSE},
                   ditherMode : {"none"}]
             \cup {[formatIn |-> f, formatOut |-> f, pre |-> TRUE, ditherMode |-> "none"] :
                      f \in {"u8", "s16"}},
          ditherMode \in {"none", "rectangle"} :
          converter = <<c @@ [own |-> 0],
                        [formatIn |-> "s16", formatOut |-> "u8", pre |-> FALSE,
                         ditherMode |-> ditherMode, own |-> 0]>>
    /\ dsp = NoDsp /\ router = ZeroRouter /\ src = ZeroSrc /\ threads = NoThreads
    /\ client = NewClient(0)
    /\ g_malLCG = 0
    /\ last = [op |-> "init"]
    /\ device = NoDevice
    /\ step = 0

\* mal_seed(seed)
Seed(seed) ==
    /\ step < MaxSteps
    /\ g_malLCG' = seed
    /\ converter' = [i \in 1..2 |-> [converter[i] EXCEPT !.own = seed]]
    /\ last' = [op |-> "seed"]
    /\ step' = step + 1
    /\ UNCHANGED <<dsp, router, src, client, threads, device>>

\* a read of one sample x from DSP i, which converts it into r; alone: what
\* it would have converted x into had no other DSP drawn from the generator
PcmRead(i, x) ==
    LET c == converter[i]
        post(pre) == mal_pcm_convert(c.formatOut, IF c.pre THEN "f32" ELSE c.formatIn,
                                     pre.out, c.ditherMode, pre.lcg)
        \* the sample DSP i writes for x on the generator state lcg
        DspConvert(lcg) ==
            post(IF c.pre THEN mal_pcm_convert("f32", c.formatIn, x, c.ditherMode, lcg)
                 ELSE [out |-> x, dither |-> 0, lcg |-> lcg])
        return(r, alone) ==
            /\ g_malLCG' = r.lcg
            /\ converter' = [converter EXCEPT ![i].own = alone.lcg]
            /\ last' = [op |-> "pcm_read", dsp |-> i, x |-> x, out |-> r.out,
                        dither |-> r.dither, alone |-> alone.out]
    IN
    /\ step < MaxSteps
    /\ return(DspConvert(g_malLCG), DspConvert(c.own))
    /\ step' = step + 1
    /\ UNCHANGED <<dsp, router, src, client, threads, device>>

NextPcm ==
    \/ \E seed \in {1, -1} : Seed(seed)
    \/ \E i \in 1..2 : \E x \in PcmSamples(converter[i].formatIn) : PcmRead(i, x)

SpecPcm == InitPcm /\ [][NextPcm]_vars

(***************************************************************************)
(* The device of a backend with a worker thread, after mal_device_init:    *)
(* the worker has put the device into the stopped state and waits for the  *)
(* wakeup event.  One or two application threads call mal_device_start    *)
(* and mal_device_stop, and one of them calls mal_device_uninit at last,   *)
(* when no other call is under way (the device must not be used while or   *)
(* after it is uninitialised).  An event is auto-reset: a signal sets it,  *)
(* a wait blocks until it is set and clears it.                            *)
(*   device.backendStarted  the backend device is running (onDeviceStart   *)
(*                          succeeded, onDeviceStop has not run since)     *)
(*   device.request         the request of the caller that holds the lock: *)
(*                          "start" or "stop" once it has changed the      *)
(*                          state, "started", "start_failed" or "stopped"  *)
(*                          once the worker has carried it out             *)
(*   threads.worker         the position of the worker thread and the      *)
(*                          result of its last main loop                   *)
(*   device.uninit          mal_device_uninit has been called              *)
(*   threads.caller[t]      the call thread t is in and its position;      *)
(*                          outer: the call that mal_device_stop was       *)
(*                          called from, when it was mal_device_uninit     *)
(***************************************************************************)
InitDevice ==
    /\ \E isDefaultDevice \in BOOLEAN :
          device = [state |-> "MAL_STATE_STOPPED",
                    wakeupEvent |-> FALSE, startEvent |-> FALSE, stopEvent |-> FALSE,
                    lock |-> 0, workResult |-> "MAL_SUCCESS",
                    isDefaultDevice |-> isDefaultDevice, exclusiveMode |-> FALSE,
                    breakFromMainLoop |-> FALSE,
                    backendStarted |-> FALSE, request |-> "none", uninit |-> FALSE]
    /\ \E applicationThreads \in 1..2 :
          threads = [worker |-> [pc |-> "wait_wakeup", mainLoopResult |-> "MAL_SUCCESS"],
                     caller |-> [t \in 1..applicationThreads |->
                                    [op |-> "none", pc |-> "idle", outer |-> "none"]]]
    /\ dsp = NoDsp /\ router = ZeroRouter /\ src = ZeroSrc /\ converter = ZeroConverter
    /\ client = NewClient(0)
    /\ g_malLCG = 0
    /\ last = [op |-> "init"]
    /\ step = 0

\* thread t enters mal_device_start, mal_device_stop or mal_device_uninit:
\* the device is initialised, so that mal_device_start and mal_device_stop
\* go on to take the lock and mal_device_uninit to look whether the device
\* is started
DeviceCall(t, op) ==
    /\ threads.caller[t].pc = "idle"
    /\ ~device.uninit
    /\ op = "mal_device_uninit" => \A u \in DOMAIN threads.caller : threads.caller[u].pc = "idle"
    /\ threads' = [threads EXCEPT !.caller[t] =
                      IF device.state = "MAL_STATE_UNINITIALIZED" THEN @
                      ELSE [op |-> op, outer |-> "none",
                            pc |-> IF op = "mal_device_uninit" THEN "is_started" ELSE "lock"]]
    /\ last' = IF device.state = "MAL_STATE_UNINITIALIZED"
               THEN [op |-> op, thread |-> t, result |-> "MAL_DEVICE_NOT_INITIALIZED",
                     state |-> device.state, request |-> "none",
                     backendStarted |-> device.backendStarted, worker |-> threads.worker.pc]
               ELSE last
    /\ device' = [device EXCEPT !.uninit = (op = "mal_device_uninit")]
    /\ UNCHANGED <<dsp, router, src, converter, client, g_malLCG, step>>

\* a step inside a call or of the worker that leaves the device as d and
\* the threads as th
DeviceStep(th, d) ==
    /\ device' = d
    /\ threads' = th
    /\ UNCHANGED <<dsp, router, src, converter, client, g_malLCG, last, step>>

\* thread t unlocks the device d and returns result from its call.  A
\* mal_device_stop called by mal_device_uninit returns into its loop
\* 'while (mal_device_stop(pDevice) == MAL_DEVICE_BUSY)'.
DeviceReturn(t, result, d) ==
    /\ device' = [d EXCEPT !.lock = 0, !.request = "none"]
    /\ threads' = [threads EXCEPT !.caller[t] =
                      IF @.outer # "mal_device_uninit"
                      THEN [op |-> "none", pc |-> "idle", outer |-> "none"]
                      ELSE IF result = "MAL_DEVICE_BUSY" THEN [@ EXCEPT !.pc = "lock"]
                      ELSE [op |-> "mal_device_uninit", pc |-> "set_uninitialized",
                            outer |-> "none"]]
    /\ last' = [op |-> threads.caller[t].op, thread |-> t, result |-> result,
                state |-> d.state, request |-> d.request,
                backendStarted |-> d.backendStarted, worker |-> threads.worker.pc]
    /\ UNCHANGED <<dsp, router, src, converter, client, g_malLCG, step>>

\* a step of thread t inside mal_device_start
mal_device_start(t) ==
    LET DeviceGoto(u, pc, d) == DeviceStep([threads EXCEPT !.caller[u].pc = pc], d) IN
    /\ threads.caller[t].op = "mal_device_start"
    /\ \/ /\ threads.caller[t].pc = "lock"
          /\ device.lock = 0
          /\ DeviceGoto(t, "check_starting", [device EXCEPT !.lock = t])
       \/ /\ threads.caller[t].pc = "check_starting"
          /\ IF device.state = "MAL_STATE_STARTING"
             THEN DeviceReturn(t, "MAL_DEVICE_ALREADY_STARTING", device)
             ELSE DeviceGoto(t, "check_started", device)
       \/ /\ threads.caller[t].pc = "check_started"
          /\ IF device.state = "MAL_STATE_STARTED"
             THEN DeviceReturn(t, "MAL_DEVICE_ALREADY_STARTED", device)
             ELSE DeviceGoto(t, "check_stopped", device)
       \/ /\ threads.caller[t].pc = "check_stopped"
          /\ IF device.state # "MAL_STATE_STOPPED"
             THEN DeviceReturn(t, "MAL_DEVICE_BUSY", device)
             ELSE DeviceGoto(t, "wait", [device EXCEPT !.state = "MAL_STATE_STARTING",
                                                       !.wakeupEvent = TRUE,
                                                       !.request = "start"])
       \/ /\ threads.caller[t].pc = "wait"
          /\ device.startEvent
          /\ DeviceReturn(t, device.workResult, [device EXCEPT !.startEvent = FALSE])

\* a step of thread t inside mal_device_stop
mal_device_stop(t) ==
    LET DeviceGoto(u, pc, d) == DeviceStep([threads EXCEPT !.caller[u].pc = pc], d) IN
    /\ threads.caller[t].op = "mal_device_stop"
    /\ \/ /\ threads.caller[t].pc = "lock"
          /\ device.lock = 0
          /\ DeviceGoto(t, "check_stopping", [device EXCEPT !.lock = t])
       \/ /\ threads.caller[t].pc = "check_stopping"
          /\ IF device.state = "MAL_STATE_STOPPING"
             THEN DeviceReturn(t, "MAL_DEVICE_ALREADY_STOPPING", device)
             ELSE DeviceGoto(t, "check_stopped", device)
       \/ /\ threads.caller[t].pc = "check_stopped"
          /\ IF device.state = "MAL_STATE_STOPPED"
             THEN DeviceReturn(t, "MAL_DEVICE_ALREADY_STOPPED", device)
             ELSE DeviceGoto(t, "check_started", device)
       \/ /\ threads.caller[t].pc = "check_started"
          /\ IF device.state # "MAL_STATE_STARTED"
             THEN DeviceReturn(t, "MAL_DEVICE_BUSY", device)
             ELSE DeviceGoto(t, "set_stopping", device)
       \/ /\ threads.caller[t].pc = "set_stopping"
          /\ DeviceGoto(t, "wait", [device EXCEPT !.state = "MAL_STATE_STOPPING",
                                                  !.breakFromMainLoop = TRUE,
                                                  !.request = "stop"])
       \/ /\ threads.caller[t].pc = "wait"
          /\ device.stopEvent
          /\ DeviceReturn(t, "MAL_SUCCESS", [device EXCEPT !.stopEvent = FALSE])

\* A step of thread t inside mal_device_uninit.  The call returns when the
\* worker thread has ended; mal_zero_object then leaves the state 0,
\* MAL_STATE_UNINITIALIZED.
mal_device_uninit(t) ==
    LET DeviceGoto(u, pc, d) == DeviceStep([threads EXCEPT !.caller[u].pc = pc], d) IN
    /\ threads.caller[t].op = "mal_device_uninit"
    /\ \/ /\ threads.caller[t].pc = "is_started"
          /\ IF device.state = "MAL_STATE_STARTED"
             THEN DeviceStep([threads EXCEPT !.caller[t] =
                                 [op |-> "mal_device_stop", pc |-> "lock",
                                  outer |-> "mal_device_uninit"]], device)
             ELSE DeviceGoto(t, "set_uninitialized", device)
       \/ /\ threads.caller[t].pc = "set_uninitialized"
          /\ DeviceGoto(t, "signal_wakeup", [device EXCEPT !.state = "MAL_STATE_UNINITIALIZED"])
       \/ /\ threads.caller[t].pc = "signal_wakeup"
          /\ DeviceGoto(t, "thread_wait", [device EXCEPT !.wakeupEvent = TRUE])
       \/ /\ threads.caller[t].pc = "thread_wait"
          /\ threads.worker.pc = "exit"
          /\ device' = [device EXCEPT !.state = "MAL_STATE_UNINITIALIZED"]
          /\ threads' = [threads EXCEPT !.caller[t] =
                                     [op |-> "none", pc |-> "idle", outer |-> "none"]]
          /\ last' = [op |-> "mal_device_uninit", thread |-> t, result |-> "none",
                      state |-> device'.state, stateBefore |-> device.state,
                      request |-> device.request,
                      backendStarted |-> device.backendStarted, worker |-> threads.worker.pc]
          /\ UNCHANGED <<dsp, router, src, converter, client, g_malLCG, step>>

\* a step of mal_worker_thread; result: what the backend callback of the
\* step returns (onDeviceStart, onDeviceMainLoop when it ends without
\* having been asked to, onDeviceReinit)
mal_worker_thread(result) ==
    LET w == threads.worker
        WorkerGoto(pc, r, d) ==
            DeviceStep([threads EXCEPT !.worker = [pc |-> pc, mainLoopResult |-> r]], d)
    IN
    \/ /\ w.pc = "wait_wakeup"
       /\ device.wakeupEvent
       /\ result = "MAL_SUCCESS"
       /\ WorkerGoto(IF device.state = "MAL_STATE_UNINITIALIZED" THEN "exit" ELSE "start",
                     w.mainLoopResult,
                     [device EXCEPT !.wakeupEvent = FALSE, !.workResult = "MAL_SUCCESS",
                                    !.stopEvent = @ \/ device.state = "MAL_STATE_UNINITIALIZED"])
    \/ /\ w.pc = "start"
       /\ IF result # "MAL_SUCCESS"
          THEN WorkerGoto("wait_wakeup", w.mainLoopResult,
                          [device EXCEPT !.workResult = result,
                                         !.state = "MAL_STATE_STOPPED",
                                         !.startEvent = TRUE,
                                         !.request = IF @ = "start" THEN "start_failed" ELSE @])
          ELSE WorkerGoto("enter_main_loop", w.mainLoopResult,
                          [device EXCEPT !.workResult = result,
                                         !.backendStarted = TRUE,
                                         !.state = "MAL_STATE_STARTED",
                                         !.startEvent = TRUE,
                                         !.request = IF @ = "start" THEN "started" ELSE @])
    \/ /\ w.pc = "enter_main_loop"
       /\ result = "MAL_SUCCESS"
       /\ WorkerGoto("main_loop", w.mainLoopResult, [device EXCEPT !.breakFromMainLoop = FALSE])
    \/ /\ w.pc = "main_loop"
       /\ result = "MAL_SUCCESS" => device.breakFromMainLoop
       /\ WorkerGoto("after_main_loop", result, device)
    \/ /\ w.pc = "after_main_loop"
       /\ IF /\ w.mainLoopResult # "MAL_SUCCESS" /\ device.isDefaultDevice
             /\ device.state = "MAL_STATE_STARTED" /\ ~device.exclusiveMode
          THEN IF result = "MAL_SUCCESS"
               THEN WorkerGoto("wait_wakeup", w.mainLoopResult,
                               [device EXCEPT !.backendStarted = FALSE,
                                              !.state = "MAL_STATE_STARTING",
                                              !.wakeupEvent = TRUE])
               ELSE WorkerGoto("stop_backend", w.mainLoopResult, device)
          ELSE /\ result = "MAL_SUCCESS"
               /\ WorkerGoto("stop_backend", w.mainLoopResult, device)
    \/ /\ w.pc = "stop_backend"
       /\ result = "MAL_SUCCESS"
       /\ WorkerGoto("signal_stopped", w.mainLoopResult,
                     IF device.state # "MAL_STATE_UNINITIALIZED"
                     THEN [device EXCEPT !.backendStarted = FALSE] ELSE device)
    \/ /\ w.pc = "signal_stopped"
       /\ result = "MAL_SUCCESS"
       /\ WorkerGoto("wait_wakeup", w.mainLoopResult,
                     IF device.state # "MAL_STATE_UNINITIALIZED"
                     THEN [device EXCEPT !.state = "MAL_STATE_STOPPED",
                                         !.stopEvent = TRUE,
                                         !.request = IF @ = "stop" THEN "stopped" ELSE @]
                     ELSE device)

NextDevice ==
    \/ \E t \in DOMAIN threads.caller :
          \E op \in {"mal_device_start", "mal_device_stop", "mal_device_uninit"} :
             DeviceCall(t, op)
    \/ \E t \in DOMAIN threads.caller : mal_device_start(t)
    \/ \E t \in DOMAIN threads.caller : mal_device_stop(t)
    \/ \E t \in DOMAIN threads.caller : mal_device_uninit(t)
    \/ \E result \in {"MAL_SUCCESS", "MAL_ERROR"} : mal_worker_thread(result)

SpecDevice == InitDevice /\ [][NextDevice]_vars

\* The device under a fair scheduler: the worker thread goes on whenever its
\* code can (the steps that do not depend on a failure of the backend), and
\* a thread inside a call takes each step that is possible again and again
\* (a lock that is free again and again is got, an event that is signalled
\* again and again is seen).
SpecDeviceFair ==
    /\ SpecDevice
    /\ WF_vars(mal_worker_thread("MAL_SUCCESS"))
    /\ \A t \in 1..2 :
          /\ SF_vars(t \in DOMAIN threads.caller /\ mal_device_start(t))
          /\ SF_vars(t \in DOMAIN threads.caller /\ mal_device_stop(t))
          /\ SF_vars(t \in DOMAIN threads.caller /\ mal_device_uninit(t))

(***************************************************************************)
(* The lookup table of the sinc SRC.                                       *)
(***************************************************************************)
MAL_SRC_SINC_LOOKUP_TABLE_RESOLUTION == 8

\* mal_countof(pSRC->sinc.table)
SincTableLen == MAL_SRC_SINC_MAX_WINDOW_WIDTH * 1 * MAL_SRC_SINC_LOOKUP_TABLE_RESOLUTION

\* The two entries of the table mal_src_sinc__interpolation_factor mixes
\* for the tap iWindow of a window at the phase t (in 1/TimeDen):
\* x = t - iWindowF[iWindow], with iWindowF[i] = i - windowWidth.
mal_src_sinc__interpolation_factor(t, iWindow, windowWidth) ==
    LET x == t - (iWindow - windowWidth) * TimeDen
        xabs == (IF x < 0 THEN 0 - x ELSE x) * MAL_SRC_SINC_LOOKUP_TABLE_RESOLUTION
        ixabs == xabs \div TimeDen
    IN {ixabs, ixabs + 1}

\* The taps of the window the table is read for: the SSE2, AVX and NEON
\* loops run over every lane of the window, the first tap included; the
\* loop without SIMD skips the first tap.
SincTaps(windowWidth, useSIMD) ==
    IF useSIMD THEN 0..(2 * windowWidth - 1) ELSE 1..(2 * windowWidth - 1)

(***************************************************************************)
(* Properties of dsp.read and of the flags mal_dsp_init derives (Spec).    *)
(***************************************************************************)
\* a call of mal_dsp_read has returned
DspReturned == last.op = "dsp_read" /\ ~last.crashed

\* input and output of the configuration agree in format, channel count,
\* channel map and sample rate, and the dynamic rate switch is off
IsPassthroughConfig(config) ==
    /\ config.formatIn = config.formatOut
    /\ config.channelsIn = config.channelsOut
    /\ config.channelMapIn = config.channelMapOut
    /\ config.sampleRateIn = config.sampleRateOut
    /\ ~config.allowDynamicSampleRate

C2_PassthroughCallsClientDirectly ==
    (DspReturned /\ IsPassthroughConfig(dsp.config)) =>
        /\ last.calls = {<<"dsp", "client">>}
        /\ last.asked = <<last.frameCount>>
        /\ last.ops = {}
        /\ last.fr = last.pulled

C2_Witness ==
    /\ DspReturned /\ IsPassthroughConfig(dsp.config)
    /\ last.frameCount > 1 /\ Len(last.fr) = last.frameCount

\* C3: after a successful init, isPassthrough holds if and only if the
\* formats, the channel counts, the channel maps and the sample rates of
\* input and output are equal and dynamic sample rate is not allowed.
C3_IsPassthroughIff ==
    dsp.result = "MAL_SUCCESS" => (dsp.isPassthrough <=> IsPassthroughConfig(dsp.config))

C3_Witness ==
    dsp.result = "MAL_SUCCESS" /\ dsp.isPassthrough /\ last.op = "dsp_read"

\* the client returned no frame in any of the calls made to it during the read
ClientReturnedZero == last.zero /\ last.pulled = <<>>

\* C6 as stated: whenever the client callback returns zero frames, dsp.read
\* returns zero frames, in every configuration.
C6_ZeroInZeroOut ==
    (DspReturned /\ ClientReturnedZero) => Len(last.fr) = 0

\* C6 amended: in every configuration that runs no linear or sinc SRC,
\* whenever the client callback returns zero frames, dsp.read returns zero
\* frames.
C6_ZeroInZeroOutWithoutSRC ==
    (DspReturned /\ ClientReturnedZero
        /\ (~dsp.isSRCRequired \/ src.algorithm = "none")) => Len(last.fr) = 0

\* the client returned nothing to a pipeline with a router and no SRC
C6_Witness ==
    /\ DspReturned /\ ClientReturnedZero /\ Len(last.fr) = 0
    /\ ~dsp.isSRCRequired /\ <<"router", "pre">> \in last.calls

\* the router comes before the SRC in the chain the data is pulled through
RouterFirst == dsp.config.channelsOut < dsp.config.channelsIn

\* the stages a stage pulled from during the last read
Upstream(stage) == {c[2] : c \in {d \in last.calls : d[1] = stage}}

\* C9: when an SRC is required, the router is upstream of the SRC if and
\* only if channelsOut < channelsIn (the SRC then pulls from the router and
\* the router from the pre-converter; otherwise the router pulls from the
\* SRC and the SRC from the pre-converter), and the SRC is initialised with
\* channelsOut channels in that case and with channelsIn channels otherwise.
C9_RouterBeforeSrcIffFewerOutputs ==
    (dsp.result = "MAL_SUCCESS" /\ dsp.isSRCRequired) =>
        /\ src.channels = IF RouterFirst THEN dsp.config.channelsOut
                          ELSE dsp.config.channelsIn
        /\ DspReturned =>
             /\ Upstream("post") = IF RouterFirst THEN {"src"} ELSE {"router"}
             /\ Upstream("src") \subseteq IF RouterFirst THEN {"router"} ELSE {"pre"}
             /\ Upstream("router") \subseteq IF RouterFirst THEN {"pre"} ELSE {"src"}

C9_Witness ==
    /\ DspReturned /\ dsp.isSRCRequired /\ RouterFirst
    /\ <<"src", "router">> \in last.calls /\ <<"router", "pre">> \in last.calls

\* C10: pre-format conversion is required if and only if an SRC or channel
\* routing is required; post-format conversion is required whenever
\* pre-format conversion, an SRC or routing is; so no read takes the
\* non-passthrough path with post-format conversion not required.
C10_PostRequiredOnSlowPath ==
    dsp.result = "MAL_SUCCESS" =>
        /\ dsp.isPreFormatConversionRequired
              <=> (dsp.isSRCRequired \/ dsp.isChannelRoutingRequired)
        /\ (dsp.isPreFormatConversionRequired \/ dsp.isSRCRequired
               \/ dsp.isChannelRoutingRequired) => dsp.isPostFormatConversionRequired
        /\ (last.op = "dsp_read" /\ ~dsp.isPassthrough)
              => (dsp.isPostFormatConversionRequired /\ ~last.asserted)

C10_Witness ==
    /\ DspReturned /\ <<"dsp", "post">> \in last.calls
    /\ dsp.isSRCRequired /\ dsp.config.formatIn = dsp.config.formatOut

(***************************************************************************)
(* Properties of src.read (SpecSrc).                                       *)
(***************************************************************************)
\* a call of mal_src_read_deinterleaved has returned
SrcReturned == last.op = "src_read" /\ ~last.crashed /\ ~last.hung

\* the algorithm resamples
Resamples == src.algorithm \in {"linear", "sinc"}

\* the frame counts n a read of n + m frames is split at
SplitPoints == {2, 150}

\* Two reads, of n and then of m frames, from the SRC s and the client c.
SplitSecond(m, r1) ==
    [first |-> r1,
     second |-> mal_src_read_deinterleaved(
                    NewContext(dsp, router, r1.cx.src, r1.cx.client), m)]

SplitRead(s, c, n, m) ==
    SplitSecond(m, mal_src_read_deinterleaved(NewContext(dsp, router, s, c), n))

SplitFrames(sp) == sp.first.fr \o sp.second.fr

SplitReturned(sp) ==
    /\ ~sp.first.cx.crashed /\ ~sp.second.cx.crashed
    /\ ~sp.first.cx.hung /\ ~sp.second.cx.hung

\* the source supplied every frame the two reads asked it for
SplitFed(sp) == ~sp.first.cx.short /\ ~sp.second.cx.short

C7_AtMostOneLaterRead ==
    (SrcReturned /\ last.dry) => last.later <= 1

\* C7 amended: with the linear SRC (or the passthrough algorithm), once the
\* source has returned zero frames, at most one later src.read call returns
\* a non-zero count; the sinc SRC can hand out its cache over several calls.
C7_AtMostOneLaterReadLinear ==
    (SrcReturned /\ last.dry /\ src.algorithm \in {"linear", "none"}) => last.later <= 1

\* a later read of the linear SRC that still returned frames
C7_Witness ==
    SrcReturned /\ src.algorithm = "linear" /\ last.dry /\ last.later = 1

\* the frames a read produced after its source first returned no frame
FramesAfterZero == Len(last.fr) - last.zeroAt

\* the source returned no frame during the read of an SRC that is never to
\* consume the end of the input
ZeroWithNeverConsume ==
    SrcReturned /\ src.neverConsumeEndOfInput /\ last.zeroAt >= 0

\* C8 as stated: with neverConsumeEndOfInput set, a read during which the
\* source returns zero frames ends after at most one more output frame.
C8_AtMostOneMoreFrame ==
    ZeroWithNeverConsume => FramesAfterZero <= 1

\* C8 amended: with the sinc SRC and neverConsumeEndOfInput set, a read
\* during which the source returns zero frames ends after at most
\* (windowWidth + 1) * rateOut / rateIn + 1 more output frames.
C8_AtMostAWindowMoreFrames ==
    (ZeroWithNeverConsume /\ src.algorithm = "sinc") =>
        FramesAfterZero * src.sampleRateIn
            <= (src.windowWidth + 1) * src.sampleRateOut + src.sampleRateIn

\* a sinc read that produced more than one frame after the source ran dry
C8_Witness ==
    ZeroWithNeverConsume /\ src.algorithm = "sinc" /\ FramesAfterZero > 1

(***************************************************************************)
(* Properties of router.read (SpecRouter).                                 *)
(***************************************************************************)
\* the sample of channel c of the client's frame f
SampleOf(f, c) == f * 4 + c

\* the value of a routed sample: the sum of its first k terms
RECURSIVE SumTerms(_, _)
SumTerms(terms, k) ==
    IF k = 0 THEN 0
    ELSE terms[k].w * SampleOf(terms[k].f, terms[k].c) + SumTerms(terms, k - 1)

\* the sum over the first i input channels of in[i][n] * W[i][j], for the
\* frame f the client supplied as frame n
RECURSIVE WeightedSum(_, _, _)
WeightedSum(f, j, i) ==
    IF i = 0 THEN 0
    ELSE SampleOf(f, i) * router.weights[i][j] + WeightedSum(f, j, i - 1)

\* C5: when the router is neither passthrough nor a simple shuffle, sample n
\* of output channel j is the sum over the input channels i of
\* in[i][n] * W[i][j], for any frame count (also above the frames the
\* scratch block holds) and whether or not channelsOut differs from
\* channelsIn.
C5_OutputIsWeightedSum ==
    (last.op = "router_read" /\ ~router.isPassthrough /\ ~router.isSimpleShuffle) =>
        \A j \in 1..router.channelsOut : \A n \in 1..Len(last.fr) :
            /\ last.out[j][n] # Unwritten
            /\ SumTerms(last.out[j][n], Len(last.out[j][n]))
                  = WeightedSum(last.pulled[n], j, router.channelsIn)

(***************************************************************************)
(* Properties of the sample rates changed while the SRC is in use          *)
(* (SpecRates).                                                            *)
(***************************************************************************)
\* C11: set_sample_rate(in, out) replaces both stored rates atomically: a
\* read running concurrently with it never computes its ratio from a mixed
\* pair.  The pair of rates a read computed its ratio from is a pair given
\* to init or to one call of set_sample_rate.
C11_NeverMixedPair ==
    last.op = "src_read" =>
        <<last.sampleRateIn, last.sampleRateOut>> \in threads.written

\* a read has returned
RateReadReturned == last.op = "src_read" /\ ~last.crashed

\* the factor the read computed, in units of 1/TimeDen
FactorOfRead == (last.sampleRateIn * TimeDen) \div last.sampleRateOut

\* The time in the input stream an output frame was computed at, in units
\* of 1/TimeDen.  The linear SRC interpolates between input frames p and
\* p + 1; the sinc SRC centres its window on input frame p.
FrameTime(frame) ==
    IF src.algorithm = "linear" THEN frame - TimeDen * client.base
    ELSE (frame.w[src.windowWidth] - client.base) * TimeDen + frame.t

\* C12: after set_sample_rate is called between two reads, the next read
\* produces its output at the new ratio, and the cached input is neither
\* dropped nor used twice: the output frames of the read are computed at
\* the times start, start + factor, start + 2 factor, ... of the input
\* stream, where start is the time the reads before it had advanced to and
\* factor is the new ratio.  (Past the end of the client's stream the sinc
\* SRC computes its frames from the zeros it pads the cache with, which
\* carry no time; the property is about the frames within the stream.)
C12_NextReadContinuesAtNewRatio ==
    RateReadReturned =>
        /\ ~last.overlapped => <<last.sampleRateIn, last.sampleRateOut>> = last.stored
        /\ \A k \in 1..Len(last.fr) :
              (last.start + (k - 1) * FactorOfRead) \div TimeDen < client.pos + client.avail
              => FrameTime(last.fr[k]) = last.start + (k - 1) * FactorOfRead

(***************************************************************************)
(* Properties of the DSP's rate setters (SpecDspRates).                    *)
(***************************************************************************)
DspSetOps == {"dsp_set_input_sample_rate", "dsp_set_output_sample_rate", "dsp_set_sample_rate"}

\* C13: on a DSP initialised without allowDynamicSampleRate, each of the
\* three rate setters called with non-zero rates returns
\* MAL_INVALID_OPERATION and the rates the SRC holds are those it held
\* before the call.
C13_SettersRefusedWithoutDynamicRate ==
    (/\ last.op \in DspSetOps
     /\ ~dsp.isDynamicSampleRateAllowed
     /\ last.sampleRateIn # 0 /\ last.sampleRateOut # 0)
    => /\ last.result = "MAL_INVALID_OPERATION"
       /\ <<src.sampleRateIn, src.sampleRateOut>> = last.stored

C13_Witness ==
    /\ last.op = "dsp_set_sample_rate"
    /\ ~dsp.isDynamicSampleRateAllowed
    /\ last.sampleRateIn # 0 /\ last.sampleRateOut # 0
    /\ <<last.sampleRateIn, last.sampleRateOut>> # last.stored
    /\ last.result = "MAL_INVALID_OPERATION"
    /\ client.pos > 0

(***************************************************************************)
(* Zero sample rates (SpecRates).                                          *)
(***************************************************************************)
\* C14: a sample rate of zero is never accepted, so an SRC whose init
\* succeeded holds no zero rate when a read loads its rates to compute the
\* ratio.
C14_NoZeroRateAtRead ==
    (src.result = "MAL_SUCCESS" /\ last.op = "src_read")
    => last.sampleRateIn # 0 /\ last.sampleRateOut # 0

(***************************************************************************)
(* A DSP init that fails (Spec).                                           *)
(***************************************************************************)
\* C15: when mal_dsp_init returns an error the DSP object holds nothing the
\* init wrote: no stage-required flag, no passthrough flag, no dynamic rate
\* switch, no callback, and neither converter, the SRC nor the router is
\* initialised.
C15_FailedInitLeavesNothing ==
    dsp.result \notin {"MAL_SUCCESS", "none"}
    => /\ ~dsp.isPreFormatConversionRequired /\ ~dsp.isPostFormatConversionRequired
       /\ ~dsp.isChannelRoutingRequired /\ ~dsp.isSRCRequired
       /\ ~dsp.isChannelRoutingAtStart /\ ~dsp.isPassthrough
       /\ ~dsp.isDynamicSampleRateAllowed
       /\ dsp.onRead = "NULL"
       /\ dsp.formatConverterIn.onRead = "NULL"
       /\ dsp.formatConverterOut.onRead = "NULL"
       /\ dsp.formatConverterOut.onReadDeinterleaved = "NULL"
       /\ src.result # "MAL_SUCCESS"
       /\ router.result # "MAL_SUCCESS"

(***************************************************************************)
(* The format converter and invalid configs (SpecConverter).               *)
(***************************************************************************)
ConverterConfigValid(conv) ==
    /\ mal_get_bytes_per_sample(conv.formatIn) # 0
    /\ mal_get_bytes_per_sample(conv.formatOut) # 0
    /\ conv.channels > 0
    /\ (conv.onRead # "NULL" \/ conv.onReadDeinterleaved # "NULL")

\* C16: mal_format_converter_init fails for a config with an unknown input
\* or output format, with no channel, or with neither read callback, so a
\* read only ever runs on a converter whose config is valid.
C16_InvalidConverterConfigRejected ==
    (converter.result = "MAL_SUCCESS" /\ last.op = "converter_read")
    => ConverterConfigValid(converter)

(***************************************************************************)
(* Properties of the router's channel maps, passthrough flag, shuffle      *)
(* table and weights (SpecRouterMaps).                                     *)
(***************************************************************************)
\* no position other than MAL_CHANNEL_NONE is named twice by the map
NoDuplicatePosition(channelMap) ==
    \A a \in 1..Len(channelMap), b \in 1..Len(channelMap) :
        (a # b /\ channelMap[a] # MAL_CHANNEL_NONE) => channelMap[a] # channelMap[b]

\* C17: a channel map that mal_channel_map_valid accepts, and so each map
\* of a router whose init succeeded, names each channel position at most
\* once.
C17_ValidMapsHaveNoDuplicate ==
    router.result = "MAL_SUCCESS"
    => NoDuplicatePosition(router.channelMapIn) /\ NoDuplicatePosition(router.channelMapOut)

\* every entry of the map is MAL_CHANNEL_NONE
IsBlankMap(channelMap) == \A k \in 1..Len(channelMap) : channelMap[k] = MAL_CHANNEL_NONE

\* C18: after a successful init the router is a passthrough if and only if
\* channelsIn = channelsOut and the two maps are equal or one of them is
\* blank; a read of a passthrough router leaves in output channel k the
\* frames the callback supplied for input channel k, unchanged.
C18_PassthroughIffEqualOrBlank ==
    router.result = "MAL_SUCCESS" =>
        /\ router.isPassthrough
              <=> /\ router.channelsIn = router.channelsOut
                  /\ \/ router.channelMapIn = router.channelMapOut
                     \/ IsBlankMap(router.channelMapIn)
                     \/ IsBlankMap(router.channelMapOut)
        /\ (router.isPassthrough /\ last.op = "router_read") =>
              \A k \in 1..router.channelsOut : \A n \in 1..Len(last.fr) :
                  last.out[k][n] = <<Term(last.pulled[n], k, WeightDen)>>

C18_Witness ==
    /\ router.result = "MAL_SUCCESS"
    /\ router.isPassthrough
    /\ router.channelsIn = 2
    /\ router.channelMapIn # router.channelMapOut
    /\ IsBlankMap(router.channelMapOut)
    /\ last.op = "router_read"
    /\ Len(last.fr) = 2

\* C19: when the router is a simple shuffle its shuffle table is a
\* permutation of the channel indices: one entry per input channel, distinct
\* input channels sent to distinct output channels, and
\* channelMapOut[shuffleTable[i]] = channelMapIn[i], so that a read writes
\* every output channel from exactly one input channel.
C19_ShuffleTableIsPermutation ==
    (router.result = "MAL_SUCCESS" /\ router.isSimpleShuffle) =>
        /\ Len(router.shuffleTable) = router.channelsIn
        /\ \A i \in 1..router.channelsIn :
              /\ router.shuffleTable[i] \in 1..router.channelsOut
              /\ router.channelMapOut[router.shuffleTable[i]] = router.channelMapIn[i]
        /\ \A a \in 1..router.channelsIn, b \in 1..router.channelsIn :
              a # b => router.shuffleTable[a] # router.shuffleTable[b]
        /\ last.op = "router_read" =>
              \A j \in 1..router.channelsOut : \A n \in 1..Len(last.fr) :
                  \E i \in 1..router.channelsIn :
                      last.out[j][n] = <<Term(last.pulled[n], i, WeightDen)>>

\* the weights mal_channel_router_init computes from the router's maps in
\* the given mixing mode
WeightsInMode(mixingMode) ==
    RouterWeights(router.channelsIn, router.channelMapIn, router.channelsOut,
                  router.channelMapOut, mixingMode)

\* C20: for every pair of valid channel maps the weights built in the
\* simple mode are those built in the planar blend mode restricted to the
\* identity and mono rules: the router holds the weights of its mode, and
\* the planar blend weights differ from the simple ones only in entries that
\* the identity and mono rules left zero.
C20_SimpleIsPlanarWithoutBlend ==
    router.result = "MAL_SUCCESS" =>
        /\ router.weights = WeightsInMode(router.mixingMode)
        /\ \A i \in 1..router.channelsIn, o \in 1..router.channelsOut :
              WeightsInMode("planar_blend")[i][o] # WeightsInMode("simple")[i][o]
              => WeightsInMode("simple")[i][o] = 0

C20_Witness ==
    /\ router.result = "MAL_SUCCESS"
    /\ router.mixingMode = "planar_blend"
    /\ router.weights # WeightsInMode("simple")
    /\ \E i \in 1..router.channelsIn, o \in 1..router.channelsOut :
          WeightsInMode("simple")[i][o] # 0
    /\ last.op = "router_read"
    /\ Len(last.fr) > 0

\* the value of a routed sample when input channel c of its frame holds
\* in[c], in units of 1/WeightDen
RECURSIVE RoutedValue(_, _, _)
RoutedValue(terms, in, k) ==
    IF k = 0 THEN 0 ELSE terms[k].w * in[terms[k].c] + RoutedValue(terms, in, k - 1)

\* C21: in the planar blend mode an output position absent from the input
\* map receives from each spatial input channel the dot product of their
\* plane ratios, identity pairs keep the weight 1 and LFE receives nothing:
\* stereo (FL, FR) routed to 5.1 (FL, FR, FC, LFE, SL, SR) turns the input
\* frame [1.0, 0.0] into FL = 1.0, FR = 0.0, FC = 0.5, LFE = 0.0, SL = 0.5,
\* SR = 0.0.
C21_StereoTo51Blend ==
    (/\ router.result = "MAL_SUCCESS" /\ router.mixingMode = "planar_blend"
     /\ router.channelsOut = 6 /\ last.op = "router_read")
    => \A n \in 1..Len(last.fr) :
          [j \in 1..6 |-> RoutedValue(last.out[j][n], <<1, 0>>, Len(last.out[j][n]))]
             = <<WeightDen, 0, WeightDen \div 2, 0, WeightDen \div 2, 0>>

C21_Witness ==
    /\ router.result = "MAL_SUCCESS" /\ router.mixingMode = "planar_blend"
    /\ router.channelsOut = 6 /\ last.op = "router_read"
    /\ Len(last.fr) = 2
    /\ router.weights[2] = <<0, WeightDen, WeightDen \div 2, 0, 0, WeightDen \div 2>>

(***************************************************************************)
(* Properties of the frames the SRC returns over all the reads of a stream *)
(* (SpecSrc).                                                              *)
(***************************************************************************)
\* the linear SRC at a ratio sampleRateIn / sampleRateOut that is an integer
LinearIntegerFactor ==
    /\ last.op = "src_read" /\ ~last.crashed
    /\ src.algorithm = "linear"
    /\ src.sampleRateIn % src.sampleRateOut = 0

\* C22: with the linear SRC and an integer factor, output frame k (counted
\* from 0 over all the reads) is input sample k * factor; at 48000 -> 24000
\* a source that holds exactly 8 samples yields 4 output frames, the input
\* samples 0, 2, 4 and 6.
C22_LinearIntegerFactorPicksSamples ==
    LinearIntegerFactor =>
        /\ \A k \in 1..Len(last.fr) :
              last.fr[k] = TimeDen * (client.base + (last.total - Len(last.fr) + k - 1)
                                                      * (src.sampleRateIn \div src.sampleRateOut))
        /\ (client.pos + client.avail = 8 /\ src.sampleRateIn = 2 * src.sampleRateOut)
           => /\ last.total <= 4
              /\ (Len(last.fr) = 0 => last.total = 4)

C22_Witness ==
    /\ LinearIntegerFactor
    /\ client.pos + client.avail = 8 /\ src.sampleRateIn = 2 * src.sampleRateOut
    /\ last.total = 4 /\ Len(last.fr) = 0

\* a read of the linear or sinc SRC that returned no frame
SrcReturnedZero ==
    /\ last.op = "src_read" /\ ~last.crashed
    /\ src.algorithm \in {"linear", "sinc"}
    /\ last.frameCount > 0 /\ Len(last.fr) = 0

LastConverter == converter[last.dsp]

\* the last read converted with dither drawn from the generator
DitheredRead ==
    /\ last.op = "pcm_read"
    /\ ~LastConverter.pre
    /\ LastConverter.formatIn \in {"s16", "s32"}
    /\ LastConverter.ditherMode # "none"

\* C24: the sample a read of a DSP writes is the one it would have written
\* had no read of another DSP taken place: it depends on the client's
\* sample and on that DSP's own state alone
C24_ReadIndependentOfOtherDsp ==
    last.op = "pcm_read" => last.out = last.alone

\* C25: without dither, a sample converted from its format to f32 by the
\* pre-format conversion and back by the post-format conversion is
\* unchanged
C25_PreThenPostIsIdentity ==
    (last.op = "pcm_read" /\ LastConverter.pre /\ LastConverter.ditherMode = "none")
        => last.out = last.x

\* C26: without dither, f32 to u8 gives 255 for +1.0, 0 for -1.0, 128 for
\* 0.0, and the endpoint values for the samples outside [-1, 1]
C26_F32ToU8Endpoints ==
    (/\ last.op = "pcm_read"
     /\ LastConverter.formatIn = "f32" /\ LastConverter.formatOut = "u8"
     /\ LastConverter.ditherMode = "none")
        => /\ (last.x.m >= 2 => last.out = 255)
           /\ (last.x.m <= -2 => last.out = 0)
           /\ (last.x.m = 0 => last.out = 128)

\* C27: a dithered integer reduction adds the dither with saturation at
\* both ends: with the dither value of the read, no greater input gives a
\* smaller output, and the most negative input with a negative dither
\* value gives the minimum output
C27_DitherSaturatesBothEnds ==
    DitheredRead =>
        LET c == LastConverter
            reduce(x) == CASE c.formatIn = "s16" ->
                                  mal_pcm_s16_to_u8(x, c.ditherMode, last.dither)
                           [] c.formatOut = "u8" ->
                                  mal_pcm_s32_to_u8(x, c.ditherMode, last.dither)
                           [] OTHER -> mal_pcm_s32_to_s16(x, c.ditherMode, last.dither)
        IN /\ \A x \in PcmSamples(c.formatIn) : x >= last.x => reduce(x) >= last.out
           /\ (/\ \A x \in PcmSamples(c.formatIn) : x >= last.x
               /\ last.dither < 0)
              => last.out = (IF c.formatOut = "u8" THEN 0 ELSE -32768)

\* C28: the dither value added to a sample lies within [ditherMin,
\* ditherMax], and a rectangular one is below ditherMax
C28_DitherWithinRange ==
    DitheredRead =>
        LET c == LastConverter
            ditherMax == CASE c.formatIn = "s16" -> 127
                           [] c.formatOut = "u8" -> 8388607
                           [] OTHER -> 32767
        IN /\ -ditherMax - 1 <= last.dither
           /\ last.dither <= ditherMax
           /\ (c.ditherMode = "rectangle" => last.dither < ditherMax)


(***************************************************************************)
(* Properties of mal_device_start and mal_device_stop on a device with a   *)
(* worker thread (SpecDevice).                                             *)
(***************************************************************************)
\* C29: when mal_device_start returns MAL_SUCCESS, the worker has carried
\* out the backend start for this request and the device state is STARTED
C29_StartReturnsAfterBackendStarted ==
    (last.op = "mal_device_start" /\ last.result = "MAL_SUCCESS")
        => /\ last.request = "started"
           /\ last.state = "MAL_STATE_STARTED"

\* C30: when mal_device_stop returns MAL_SUCCESS, the worker has left the
\* main loop and stopped the backend for this request and the device state
\* is STOPPED
C30_StopReturnsAfterBackendStopped ==
    (last.op = "mal_device_stop" /\ last.result = "MAL_SUCCESS")
        => /\ last.request = "stopped"
           /\ ~last.backendStarted
           /\ last.worker \notin {"enter_main_loop", "main_loop"}
           /\ last.state = "MAL_STATE_STOPPED"


\* C31: in an application that calls the device from one thread,
\* mal_device_start never returns MAL_DEVICE_BUSY or
\* MAL_DEVICE_ALREADY_STARTING and mal_device_stop never returns
\* MAL_DEVICE_BUSY or MAL_DEVICE_ALREADY_STOPPING
C31_SingleThreadNeverBusy ==
    (DOMAIN threads.caller = {1} /\ last.op \in {"mal_device_start", "mal_device_stop"})
        => last.result \notin {"MAL_DEVICE_BUSY", "MAL_DEVICE_ALREADY_STARTING",
                               "MAL_DEVICE_ALREADY_STOPPING"}

(***************************************************************************)
(* Properties of the caches of the linear and the sinc SRC (SpecSrc).      *)
(***************************************************************************)

\* C32: in the linear SRC, after every read, the subtraction
\* framesReadFromClient - floor(tNext) has not underflowed and no cache index
\* has left the 256 samples of the cache (the read has not crashed), timeIn
\* is a phase inside the cache and leftoverFrames is at most the cache length.
C32_LinearCacheInBounds ==
    (last.op = "src_read" /\ src.algorithm = "linear")
        => /\ ~last.crashed
           /\ 0 <= src.timeIn
           /\ src.timeIn < TimeDen * MAL_SRC_INPUT_BUFFER_SIZE_IN_SAMPLES
           /\ 0 <= src.leftoverFrames
           /\ src.leftoverFrames <= MAL_SRC_INPUT_BUFFER_SIZE_IN_SAMPLES

\* C33: in the sinc SRC, after every read, the inputFrameCount frames the
\* cache holds ahead of the window are the last frames pulled from the
\* client, in order and without a gap, at windowPosInSamples + windowWidth
\* onwards: no reload and no zero-fill has overwritten a loaded frame the
\* window has not left, and every reload was written right after the last
\* loaded frame.
C33_ReloadWritesAfterLoadedFrames ==
    (last.op = "src_read" /\ ~last.crashed /\ src.algorithm = "sinc")
        => \A j \in 0..(src.inputFrameCount - 1) :
              /\ src.windowPosInSamples + src.windowWidth + j < SincCacheLen
              /\ src.input[src.windowPosInSamples + src.windowWidth + j + 1]
                    = client.base + client.pos - src.inputFrameCount + j

\* C34: for every output frame a sinc read has computed, every tap of the
\* window and both code paths (with and without SIMD), the two entries of
\* the lookup table the interpolation factor mixes lie inside the table.
C34_TableAccessInsideTable ==
    (last.op = "src_read" /\ ~last.crashed /\ src.algorithm = "sinc")
        => \A k \in 1..Len(last.fr), useSIMD \in BOOLEAN :
              \A iWindow \in SincTaps(src.windowWidth, useSIMD) :
                 \A ixabs \in mal_src_sinc__interpolation_factor(
                                  last.fr[k].t, iWindow, src.windowWidth) :
                    ixabs < SincTableLen

\* C35: every call of src.read returns: no iteration of the read loop of
\* the linear or of the sinc SRC writes no frame, does not break and leaves
\* the SRC and the client unchanged.
C35_ReadLoopMakesProgress ==
    last.op = "src_read" => ~last.hung

ClientCallers == {c[1] : c \in {d \in last.calls : d[2] = "client"}}

\* C37 as stated: in every read of a DSP that is not a passthrough, the
\* client callback is called by the pre-format converter only.
C37_OnlyPreConverterCallsClient ==
    (last.op = "dsp_read" /\ ~dsp.isPassthrough) => ClientCallers \subseteq {"pre"}

\* C37, amended: in every read of a DSP that is not a passthrough, the
\* client callback is called by the pre-format converter when pre-format
\* conversion is required, and by the post-format converter when it is not
\* (the DSP converts the format only); the router and the SRC never call it.
C37_OnlyAConverterCallsClient ==
    (last.op = "dsp_read" /\ ~dsp.isPassthrough)
        => ClientCallers \subseteq
              (IF dsp.isPreFormatConversionRequired THEN {"pre"} ELSE {"post"})

\* a DSP that converts the format only has read from the client
C37_Witness ==
    /\ DspReturned /\ ~dsp.isPassthrough /\ ~dsp.isPreFormatConversionRequired
    /\ ClientCallers = {"post"} /\ Len(last.fr) > 0

(***************************************************************************)
(* Properties of the rates the iterations of one src.read use (SpecRates). *)
(***************************************************************************)
\* C38: a call of set_sample_rate that completes while a read is in progress
\* is followed by the iterations of the read that start after it.  A read
\* that loaded the pair of rates stored when it was called, a pair given to
\* the SRC in one call, and that has returned frames while no call of
\* set_sample_rate is under way, has computed them at the ratio of the
\* rates that are stored now.
C38_IterationsUseStoredRates ==
    (last.op = "src_read" /\ ~last.crashed /\ Len(last.fr) > 0
        /\ threads.setter.pc = "idle"
        /\ last.stored \in threads.written
        /\ <<last.sampleRateIn, last.sampleRateOut>> = last.stored)
        => <<last.sampleRateIn, last.sampleRateOut>> = <<src.sampleRateIn, src.sampleRateOut>>


(***************************************************************************)
(* Properties of mal_device_uninit (SpecDevice).                           *)
(***************************************************************************)

\* C40: when mal_device_uninit returns, the backend's stop callback has run
\* for every start of the backend that succeeded (the backend is not left
\* started), the worker thread has ended and has been joined, and the
\* device's state is MAL_STATE_UNINITIALIZED.
C40_UninitLeavesBackendStoppedAndWorkerJoined ==
    last.op = "mal_device_uninit"
        => /\ ~last.backendStarted
           /\ last.worker = "exit"
           /\ last.state = "MAL_STATE_UNINITIALIZED"


(***************************************************************************)
(* Properties of the calls under a fair scheduler (SpecDeviceFair).        *)
(***************************************************************************)

\* C39: whatever the interleaving of the mal_device_start and
\* mal_device_stop calls of the application threads and whatever the
\* backend answers, every such call returns in the end: no caller waits for
\* ever for the start event, the stop event or the lock (as long as the
\* device is not uninitialised).
C39_EveryCallReturns ==
    \A t \in 1..2 :
        (t \in DOMAIN threads.caller /\ threads.caller[t].pc # "idle" /\ ~device.uninit)
            ~> (t \in DOMAIN threads.caller /\ (threads.caller[t].pc = "idle" \/ device.uninit))

============================================================================
